---------------------------- MODULE Spec2Model ----------------------------
(***************************************************************************)
(* A model of the case-based-reasoning core of cbr-system: the attribute   *)
(* classes (attributes.py, attribute_names.py), Case.similarity and        *)
(* Case.adapt (case.py) and Matcher.match and Matcher.adapt (matcher.py).  *)
(*                                                                         *)
(* The program is Python 2.  Attribute objects live in a heap keyed by     *)
(* their address: object identity decides `!=' on attributes (the class    *)
(* defines __eq__ only) and the order of two unequal attributes when       *)
(* sorted() has to compare two cases.  Floating point numbers are modelled *)
(* as exact rationals.                                                     *)
(***************************************************************************)
EXTENDS Integers, Sequences, FiniteSets, TLC

VARIABLES
    heap,          \* address -> attribute object [name, value, matching]
    cases,         \* Matcher.cases: the case base, a sequence of Case
    query,         \* the query Case
    simOut,        \* outcome of the last call query.similarity(cases[i])
    caseAdaptOut,  \* outcome of the last call cases[i].adapt(query)
    matchOut,      \* outcome of the last call Matcher.match(query, count)
    adaptOut,      \* outcome of the last call Matcher.adapt(query, result)
    attrOut,       \* outcome of the last call a.similarity(b) on two attributes
    setOut,        \* outcome of the last item assignment query[name] = value
    tree,          \* the nested list a Tree was built from
    treeOut,       \* the names and the outcome of tree.find_common_value(names)
    location_cache,\* place.location_cache: key -> (place_name, coords)
    places,        \* the Place objects constructed so far
    placeOut,      \* outcome of the last construction Place(name)
    config,        \* Interface.config: retrieve, adapt, auto_run
    self_result,   \* Interface.result: nothing, or the query run and its list
    cmdOut         \* outcome of the last command given to the console

\* the state of the cases and the matcher, and the state beside it
coreVars == <<heap, cases, query, simOut, caseAdaptOut, matchOut, adaptOut, attrOut, setOut>>
consoleVars == <<config, self_result, cmdOut>>
sideVars == <<tree, treeOut, location_cache, places, placeOut, consoleVars>>

vars == <<coreVars, sideVars>>

(***************************************************************************)
(* Bounds of the model.                                                    *)
(***************************************************************************)
MaxVal == 2        \* numeric attribute values range up to MaxVal
MaxAttrVal == 3    \* values of the two attributes compared on their own
MaxCases == 2      \* the case base of the matcher holds up to MaxCases cases

(***************************************************************************)
(* Rationals <<n, d>> with d > 0 in lowest terms stand for Python floats.  *)
(***************************************************************************)
RECURSIVE Gcd(_, _)
Gcd(a, b) == IF b = 0 THEN a ELSE Gcd(b, a % b)

Abs(x) == IF x < 0 THEN -x ELSE x

Rat(n, d) ==
    LET g == Gcd(Abs(n), Abs(d))
        s == IF d < 0 THEN -1 ELSE 1
    IN  <<(s * n) \div g, (s * d) \div g>>

RInt(n) == <<n, 1>>
RAdd(a, b) == Rat(a[1] * b[2] + b[1] * a[2], a[2] * b[2])
RSub(a, b) == Rat(a[1] * b[2] - b[1] * a[2], a[2] * b[2])
RMul(a, b) == Rat(a[1] * b[1], a[2] * b[2])
RDiv(a, b) == Rat(a[1] * b[2], a[2] * b[1])
RLess(a, b) == a[1] * b[2] < b[1] * a[2]
\* int(x) of a float: truncation towards zero
RTrunc(a) == IF a[1] >= 0 THEN a[1] \div a[2] ELSE -((-a[1]) \div a[2])

(***************************************************************************)
(* The attribute classes of attribute_names.py that the model covers, with *)
(* the class attributes they inherit from attributes.py.                   *)
(***************************************************************************)
AttrNames == {"Duration", "JourneyCode", "NumberOfPersons", "Price"}

\* all the attribute classes of the model
ClassNames == AttrNames \cup {"HolidayType", "Season", "Transportation"}

\* string comparison of two attribute names (dictionary keys)
NameOrd(n) ==
    CASE n = "Duration" -> 1
      [] n = "HolidayType" -> 2
      [] n = "JourneyCode" -> 3
      [] n = "NumberOfPersons" -> 4
      [] n = "Price" -> 5
      [] n = "Season" -> 6
      [] n = "Transportation" -> 7

\* _weight: Attribute defaults to 1.0
Weight(n) ==
    CASE n = "JourneyCode" -> 100
      [] n = "HolidayType" -> 10
      [] n = "Price" -> 5
      [] n = "Season" -> 2
      [] n = "Transportation" -> 2
      [] OTHER -> 1

\* _adaptable: set by NumericAdapt
Adaptable(n) == n \in {"NumberOfPersons", "Duration"}

\* _adjustable: set by LinearAdjust
Adjustable(n) == n = "Price"

\* _range: the [lo, hi] the classes of attribute_names declare
Range(n) ==
    CASE n = "Price" -> <<279, 7161>>
      [] n = "NumberOfPersons" -> <<1, 12>>
      [] n = "Duration" -> <<3, 21>>

\* _scale: LinearMatch defaults to 1.0, Duration sets 18.0
Scale(n) == IF n = "Duration" THEN 18 ELSE 1

\* ExactMatch.similarity
ExactMatchSimilarity(self, other) ==
    IF self.name = other.name /\ self.value = other.value
    THEN RInt(Weight(self.name)) ELSE RInt(0)

\* LinearMatch.similarity
LinearMatchSimilarity(self, other) ==
    RSub(RInt(1), Rat(Abs(self.value - other.value), Scale(self.name)))

\* LessIsPerfect.similarity with the comparison the other way round
LessIsPerfectFlipped(self, other) ==
    IF self.value < other.value
    THEN RInt(Weight(self.name))
    ELSE LinearMatchSimilarity(self, other)

\* LessIsPerfect.similarity
LessIsPerfectSimilarity(self, other) ==
    IF other.value < self.value
    THEN RInt(Weight(self.name))
    ELSE LinearMatchSimilarity(self, other)

(***************************************************************************)
(* tree.Tree.  A tree is a nested tuple <<name, value, children>>; a node  *)
(* is known by its position, the sequence of child indices that leads to   *)
(* it from the root, which stands for the identity of the Node object.     *)
(***************************************************************************)
\* HolidayType._match_tree
HolidayTree ==
    <<"Arbitrary", Rat(3, 10),
      << <<"Active", Rat(1, 2),
            << <<"Adventure", Rat(1, 1), <<>> >>,
               <<"Diving", Rat(1, 1), <<>> >>,
               <<"Skiing", Rat(1, 1), <<>> >>,
               <<"Surfing", Rat(1, 1), <<>> >> >> >>,
         <<"City", Rat(1, 2),
            << <<"Shopping", Rat(1, 1), <<>> >> >> >>,
         <<"Education", Rat(1, 2),
            << <<"Language", Rat(1, 1), <<>> >> >> >>,
         <<"Recreation", Rat(3, 5),
            << <<"Bathing", Rat(1, 1), <<>> >>,
               <<"Wandering", Rat(1, 1), <<>> >> >> >> >> >>

RECURSIVE NodeAt(_, _)
NodeAt(t, id) ==
    IF id = <<>> THEN t ELSE NodeAt(t[3][Head(id)], Tail(id))

\* the positions of the nodes from the root to the node at id
PathTo(id) == [i \in 1..(Len(id) + 1) |-> SubSeq(id, 1, i - 1)]

\* the search of Tree.find_path: the position of the first node named
\* `name' in depth-first order below root, <<0>> when there is none
RECURSIVE FindNode(_, _, _)
RECURSIVE FindInChildren(_, _, _, _)
FindNode(t, name, root) ==
    IF NodeAt(t, root)[1] = name THEN root
    ELSE FindInChildren(t, name, root, 1)

FindInChildren(t, name, root, k) ==
    IF k > Len(NodeAt(t, root)[3]) THEN <<0>>
    ELSE LET found == FindNode(t, name, Append(root, k))
         IN  IF found # <<0>> THEN found
             ELSE FindInChildren(t, name, root, k + 1)

\* Tree.find_path: the nodes from the root to the node found; the empty
\* sequence stands for None (a path found holds the root at least)
FindPath(t, name) ==
    LET found == FindNode(t, name, <<>>)
    IN  IF found = <<0>> THEN <<>> ELSE PathTo(found)

\* the loop of find_common_path over range(min length): the common prefix
RECURSIVE CommonPrefix(_, _, _)
CommonPrefix(paths, i, common_path) ==
    IF \E p \in DOMAIN paths : i > Len(paths[p]) THEN common_path
    ELSE IF \E p \in DOMAIN paths : paths[p][i] # paths[1][i] THEN common_path
    ELSE CommonPrefix(paths, i + 1, Append(common_path, paths[1][i]))

\* Tree.find_common_path: [none |-> TRUE] stands for None; min() of no
\* length at all raises ValueError
FindCommonPath(t, names) ==
    LET paths == [i \in DOMAIN names |-> FindPath(t, names[i])]
    IN  IF \E i \in DOMAIN names : paths[i] = <<>>
        THEN [none |-> TRUE, raised |-> "", path |-> <<>>]
        ELSE IF names = <<>>
        THEN [none |-> FALSE, raised |-> "ValueError", path |-> <<>>]
        ELSE [none |-> FALSE, raised |-> "", path |-> CommonPrefix(paths, 1, <<>>)]

\* Tree.find_common_value returning the value of the first node of the path
FindCommonValueFirst(t, names) ==
    LET r == FindCommonPath(t, names)
    IN  IF r.raised # "" THEN [found |-> FALSE, raised |-> r.raised, value |-> Rat(0, 1)]
        ELSE IF r.none THEN [found |-> FALSE, raised |-> "", value |-> Rat(0, 1)]
        ELSE IF r.path = <<>>
        THEN [found |-> FALSE, raised |-> "IndexError", value |-> Rat(0, 1)]
        ELSE [found |-> TRUE, raised |-> "", value |-> NodeAt(t, r.path[1])[2]]

\* Tree.find_common_value: [found |-> FALSE] with nothing raised stands for
\* None; path[-1] of an empty path raises IndexError
FindCommonValue(t, names) ==
    LET r == FindCommonPath(t, names)
    IN  IF r.raised # "" THEN [found |-> FALSE, raised |-> r.raised, value |-> Rat(0, 1)]
        ELSE IF r.none THEN [found |-> FALSE, raised |-> "", value |-> Rat(0, 1)]
        ELSE IF r.path = <<>>
        THEN [found |-> FALSE, raised |-> "IndexError", value |-> Rat(0, 1)]
        ELSE [found |-> TRUE, raised |-> "", value |-> NodeAt(t, r.path[Len(r.path)])[2]]

\* TreeMatch.similarity without the test for equal values
TreeMatchLookupOnly(self, other) ==
    FindCommonValue(HolidayTree, <<self.value, other.value>>).value

\* TreeMatch.similarity on two values the tree holds
TreeMatchSimilarity(self, other) ==
    IF self.value = other.value THEN Rat(1, 1)
    ELSE FindCommonValue(HolidayTree, <<self.value, other.value>>).value

\* Transportation._match_table: 0.8 is 4/5, 0.7 is 7/10 and so on
TransportValues == {"Car", "Coach", "Plane", "Train"}

MatchTable ==
    [x \in TransportValues |->
       [y \in TransportValues |->
          CASE x = y -> Rat(1, 1)
            [] x = "Car" /\ y = "Coach" -> Rat(4, 5)
            [] x = "Car" /\ y = "Train" -> Rat(1, 2)
            [] x = "Coach" /\ y = "Car" -> Rat(4, 5)
            [] x = "Coach" /\ y = "Train" -> Rat(7, 10)
            [] x = "Plane" /\ y = "Train" -> Rat(3, 10)
            [] x = "Train" /\ y = "Car" -> Rat(2, 5)
            [] x = "Train" /\ y = "Coach" -> Rat(4, 5)
            [] OTHER -> Rat(0, 1)]]

\* TableMatch.similarity on two values the table holds
TableMatchSimilarity(self, other) == MatchTable[self.value][other.value]

\* TableMatch.similarity giving 0.0 where the method raises
TableMatchDefaultScore(self, other) ==
    IF self.value \notin DOMAIN MatchTable
         \/ other.value \notin DOMAIN MatchTable[self.value]
    THEN [kind |-> "ok", value |-> Rat(0, 1)]
    ELSE [kind |-> "ok", value |-> MatchTable[self.value][other.value]]

\* TableMatch.similarity on any two values: the two tests that raise
\* RuntimeError, then the entry of the table
TableMatchOutcome(self, other) ==
    IF self.value \notin DOMAIN MatchTable
    THEN [kind |-> "RuntimeError", value |-> Rat(0, 1)]
    ELSE IF other.value \notin DOMAIN MatchTable[self.value]
    THEN [kind |-> "RuntimeError", value |-> Rat(0, 1)]
    ELSE [kind |-> "ok", value |-> TableMatchSimilarity(self, other)]

\* Season._months, by index
Months ==
    <<"January", "February", "March", "April", "May", "June",
      "July", "August", "September", "October", "November", "December">>

\* _months.index(m)
MonthIndex(m) == (CHOOSE i \in 1..Len(Months) : Months[i] = m) - 1

\* Season._seasons
Seasons == <<{11, 0, 1}, {2, 3, 4}, {5, 6, 7}, {8, 9, 10}>>

\* the loop over enumerate(_seasons): the index of the last season that
\* holds idx, 0 when none does
SeasonOf(idx) ==
    LET hit == {i \in 1..Len(Seasons) : idx \in Seasons[i]}
    IN  IF hit = {} THEN 0
        ELSE (CHOOSE i \in hit : \A j \in hit : j <= i) - 1

\* Season.similarity; _fuzz_similarity is 0.5
SeasonSimilarity(self, other) ==
    IF self.value = other.value
    THEN RInt(Weight(self.name))
    ELSE LET idx_self == MonthIndex(self.value)
             idx_other == MonthIndex(other.value)
         IN  IF SeasonOf(idx_self) = SeasonOf(idx_other)
                  \/ Abs(idx_self - idx_other) = 1
             THEN RMul(Rat(1, 2), RInt(Weight(self.name)))
             ELSE RInt(0)

\* attr.similarity(other), resolved along the class's method resolution order
AttrSimilarity(self, other) ==
    CASE self.name = "JourneyCode" -> ExactMatchSimilarity(self, other)
      [] self.name = "Price" -> LessIsPerfectSimilarity(self, other)
      [] self.name = "HolidayType" -> TreeMatchSimilarity(self, other)
      [] self.name = "Transportation" -> TableMatchSimilarity(self, other)
      [] self.name = "Season" -> SeasonSimilarity(self, other)
      [] OTHER -> LinearMatchSimilarity(self, other)

\* Attribute.__eq__
AttrEq(self, other) ==
    /\ self.name = other.name
    /\ self.value = other.value
    /\ Weight(self.name) = Weight(other.name)

(***************************************************************************)
(* A Case is a dictionary: a function from the names it holds to the       *)
(* addresses of its attribute objects.                                     *)
(***************************************************************************)
EmptyCase == [n \in {} |-> 0]

RECURSIVE NamesByKey(_)
NamesByKey(S) ==
    IF S = {} THEN <<>>
    ELSE LET n == CHOOSE x \in S : \A y \in S : NameOrd(x) <= NameOrd(y)
         IN  <<n>> \o NamesByKey(S \ {n})

RECURSIVE Reverse(_)
Reverse(s) == IF s = <<>> THEN <<>> ELSE Reverse(Tail(s)) \o <<Head(s)>>

\* the orders in which a loop over self.values() may visit the attributes
\* held under the names S: the dictionary's order is any one order, the
\* same in every loop over the unchanged dictionary; the model takes the
\* order of the keys and its reverse, which puts any two names both ways
NameOrders(S) == {NamesByKey(S), Reverse(NamesByKey(S))}

(***************************************************************************)
(* Case.similarity(self, other): the loop over self.values(), with the     *)
(* running sums and the exception that leaves it.  other[attr.name] raises *)
(* KeyError for a missing key; the handler catches AttributeError only.    *)
(***************************************************************************)
RECURSIVE SimilarityLoop(_, _, _, _, _, _)
SimilarityLoop(h, self, other, order, total_similarity, total_weight) ==
    IF order = <<>>
    THEN [kind |-> "ok",
          value |-> IF total_weight = RInt(0) THEN RInt(0)
                    ELSE RDiv(total_similarity, total_weight)]
    ELSE LET attr == h[self[Head(order)]]
         IN  IF ~attr.matching
             THEN SimilarityLoop(h, self, other, Tail(order),
                                 total_similarity, total_weight)
             ELSE IF attr.name \notin DOMAIN other
             THEN [kind |-> "KeyError", value |-> RInt(0)]
             ELSE SimilarityLoop(h, self, other, Tail(order),
                      RAdd(total_similarity, AttrSimilarity(attr, h[other[attr.name]])),
                      RAdd(total_weight, RInt(Weight(attr.name))))

\* a similarity that counts every attribute, whatever its matching flag
CaseSimilarityAllMatching(h, self, other) ==
    SimilarityLoop([a \in DOMAIN h |-> [h[a] EXCEPT !.matching = TRUE]],
                   self, other, NamesByKey(DOMAIN self), RInt(0), RInt(0))

\* self.similarity(other): how the call ends and the value it returns
CaseSimilarity(h, self, other) ==
    SimilarityLoop(h, self, other, NamesByKey(DOMAIN self), RInt(0), RInt(0))


(***************************************************************************)
(* Case.adapt(self, other).  The first loop multiplies the adaptation      *)
(* distances into total_adapt; the second fills the new case.  Both visit  *)
(* self.values() in the dictionary's order, passed as `order'.             *)
(***************************************************************************)
\* NumericAdapt.adapt_distance: float(other.value)/self.value
AdaptDistance(self, other) == Rat(other.value, self.value)

\* LinearAdjust.adjusted: self.__class__(self.value * value), a new object
\* whose constructor (Numeric._set_value) stores int() of the product
Adjusted(self, value) ==
    [name |-> self.name,
     value |-> RTrunc(RMul(RInt(self.value), value)),
     matching |-> TRUE]

\* the address the allocator gives the next new object
NewAddr(h) ==
    IF DOMAIN h = {} THEN 1
    ELSE 1 + CHOOSE a \in DOMAIN h : \A b \in DOMAIN h : b <= a

\* an adjusted() that stores the product in the object it is called on
AdjustedInPlace(h, addr) == addr

\* where adjusted() puts its result when called on the object at addr:
\* self.__class__(...) constructs a new object
AdjustedAddr(h, addr) == NewAddr(h)

\* a first loop that assigns each distance to total_adapt
RECURSIVE AdaptFirstPassOverwrite(_, _, _, _, _)
AdaptFirstPassOverwrite(h, self, other, order, total_adapt) ==
    IF order = <<>>
    THEN [kind |-> "ok", value |-> total_adapt]
    ELSE LET attr == h[self[Head(order)]]
         IN  IF Adaptable(attr.name) /\ attr.name \in DOMAIN other
             THEN IF attr.value = 0
                  THEN [kind |-> "ZeroDivisionError", value |-> total_adapt]
                  ELSE AdaptFirstPassOverwrite(h, self, other, Tail(order),
                           AdaptDistance(attr, h[other[attr.name]]))
             ELSE AdaptFirstPassOverwrite(h, self, other, Tail(order), total_adapt)

RECURSIVE AdaptFirstPass(_, _, _, _, _)
AdaptFirstPass(h, self, other, order, total_adapt) ==
    IF order = <<>>
    THEN [kind |-> "ok", value |-> total_adapt]
    ELSE LET attr == h[self[Head(order)]]
         IN  IF Adaptable(attr.name) /\ attr.name \in DOMAIN other
             THEN IF attr.value = 0
                  THEN [kind |-> "ZeroDivisionError", value |-> total_adapt]
                  ELSE AdaptFirstPass(h, self, other, Tail(order),
                           RMul(total_adapt, AdaptDistance(attr, h[other[attr.name]])))
             ELSE AdaptFirstPass(h, self, other, Tail(order), total_adapt)

RECURSIVE AdaptSecondPass(_, _, _, _, _, _)
AdaptSecondPass(h, self, other, order, total_adapt, new_case) ==
    IF order = <<>>
    THEN [heap |-> h, case |-> new_case]
    ELSE LET attr == h[self[Head(order)]]
         IN  IF Adaptable(attr.name) /\ attr.name \in DOMAIN other
             THEN AdaptSecondPass(h, self, other, Tail(order), total_adapt,
                      (attr.name :> other[attr.name]) @@ new_case)
             ELSE IF Adjustable(attr.name)
             THEN LET a == AdjustedAddr(h, self[Head(order)])
                  IN  AdaptSecondPass((a :> Adjusted(attr, total_adapt)) @@ h,
                          self, other, Tail(order), total_adapt,
                          (attr.name :> a) @@ new_case)
             ELSE AdaptSecondPass(h, self, other, Tail(order), total_adapt,
                      (attr.name :> self[Head(order)]) @@ new_case)

\* an adapt that fills a copy of other instead of an empty case
CaseAdaptOntoOther(h, self, other, order) ==
    LET first == AdaptFirstPass(h, self, other, order, RInt(1))
        second == AdaptSecondPass(h, self, other, order, first.value, other)
    IN  IF first.kind = "ok"
        THEN [kind |-> "ok", heap |-> second.heap, case |-> second.case,
              total_adapt |-> first.value]
        ELSE [kind |-> first.kind, heap |-> h, case |-> EmptyCase,
              total_adapt |-> first.value]

\* the outcome of self.adapt(other): how the call ends, the heap after it,
\* the case it returns and the combined ratio it computed
CaseAdapt(h, self, other, order) ==
    LET first == AdaptFirstPass(h, self, other, order, RInt(1))
        second == AdaptSecondPass(h, self, other, order, first.value, EmptyCase)
    IN  IF first.kind = "ok"
        THEN [kind |-> "ok", heap |-> second.heap, case |-> second.case,
              total_adapt |-> first.value]
        ELSE [kind |-> first.kind, heap |-> h, case |-> EmptyCase,
              total_adapt |-> first.value]


(***************************************************************************)
(* sorted(similarities, reverse=True) on a list of tuples (score, case).   *)
(* A tuple is a pair <<score, i>>, i the index of the case in the case     *)
(* base.  Tuples compare item by item, so two tuples of equal score are    *)
(* ordered by comparing the two cases: dictionaries compare by length,     *)
(* then by their smallest differing key, then by the values under it, and  *)
(* two unequal attribute objects of one class compare by address.          *)
(***************************************************************************)
\* dict.__eq__ on two cases a and b
CaseEq(h, a, b) ==
    /\ DOMAIN a = DOMAIN b
    /\ \A k \in DOMAIN a : a[k] = b[k] \/ AttrEq(h[a[k]], h[b[k]])

\* cmp() of two attribute objects at addresses x and y
AttrCompare(h, x, y) ==
    IF x = y \/ AttrEq(h[x], h[y]) THEN 0
    ELSE IF h[x].name # h[y].name
         THEN (IF NameOrd(h[x].name) < NameOrd(h[y].name) THEN -1 ELSE 1)
         ELSE (IF x < y THEN -1 ELSE 1)

\* the keys of a whose value differs from b's, or that b lacks
DiffKeys(h, a, b) ==
    {k \in DOMAIN a : k \notin DOMAIN b \/ ~(a[k] = b[k] \/ AttrEq(h[a[k]], h[b[k]]))}

SmallestKey(S) == CHOOSE k \in S : \A l \in S : NameOrd(k) <= NameOrd(l)

\* dict_compare(a, b)
DictCompare(h, a, b) ==
    LET la == Cardinality(DOMAIN a)
        lb == Cardinality(DOMAIN b)
        da == DiffKeys(h, a, b)
        db == DiffKeys(h, b, a)
    IN  IF la < lb THEN -1
        ELSE IF la > lb THEN 1
        ELSE IF da = {} THEN 0
        ELSE IF db = {} THEN 0
        ELSE LET adiff == SmallestKey(da)
                 bdiff == SmallestKey(db)
             IN  IF adiff # bdiff
                 THEN (IF NameOrd(adiff) < NameOrd(bdiff) THEN -1 ELSE 1)
                 ELSE AttrCompare(h, a[adiff], b[bdiff])

\* x < y on two tuples (score, case)
TupleLess(h, cs, x, y) ==
    IF x[1] # y[1] THEN RLess(x[1], y[1])
    ELSE IF x[2] = y[2] \/ CaseEq(h, cs[x[2]], cs[y[2]]) THEN FALSE
    ELSE DictCompare(h, cs[x[2]], cs[y[2]]) < 0

\* count_run: the length of the run that starts the list and whether it
\* is strictly descending
RECURSIVE RunLength(_, _, _, _, _)
RunLength(h, cs, a, n, descending) ==
    IF n >= Len(a) THEN n
    ELSE IF descending = TupleLess(h, cs, a[n + 1], a[n])
         THEN RunLength(h, cs, a, n + 1, descending)
         ELSE n

\* binarysort's search for the place of pivot in the sorted a[l .. r-1]
RECURSIVE BinarySearch(_, _, _, _, _, _)
BinarySearch(h, cs, a, pivot, l, r) ==
    IF l >= r THEN l
    ELSE LET p == l + ((r - l) \div 2)
         IN  IF TupleLess(h, cs, pivot, a[p])
             THEN BinarySearch(h, cs, a, pivot, l, p)
             ELSE BinarySearch(h, cs, a, pivot, p + 1, r)

\* binarysort: a[1 .. start-1] is sorted; insert the rest one by one
RECURSIVE BinarySort(_, _, _, _)
BinarySort(h, cs, a, start) ==
    IF start > Len(a) THEN a
    ELSE LET pivot == a[start]
             l == BinarySearch(h, cs, a, pivot, 1, start)
             moved == SubSeq(a, 1, l - 1) \o <<pivot>> \o SubSeq(a, l, start - 1)
                          \o SubSeq(a, start + 1, Len(a))
         IN  BinarySort(h, cs, moved, start + 1)

\* list.sort() of a list shorter than 64: one run, extended by binarysort
ListSort(h, cs, a) ==
    IF Len(a) < 2 THEN a
    ELSE LET descending == TupleLess(h, cs, a[2], a[1])
             n == RunLength(h, cs, a, 2, descending)
             run == IF descending
                    THEN Reverse(SubSeq(a, 1, n)) \o SubSeq(a, n + 1, Len(a))
                    ELSE a
         IN  BinarySort(h, cs, run, n + 1)

\* sorted(a, reverse=True): reverse, sort, reverse
SortedReverse(h, cs, a) == Reverse(ListSort(h, cs, Reverse(a)))


(***************************************************************************)
(* Matcher.match(query, count)                                             *)
(***************************************************************************)
Min(a, b) == IF a < b THEN a ELSE b

MatcherMatch(h, cs, q, count) ==
    LET sims == [i \in 1..Len(cs) |-> CaseSimilarity(h, q, cs[i])]
        similarities == [i \in 1..Len(cs) |-> <<sims[i].value, i>>]
        ranked == SortedReverse(h, cs, similarities)
    IN  IF \E i \in 1..Len(cs) : sims[i].kind # "ok"
        THEN [kind |-> "KeyError", count |-> count, list |-> <<>>]
        ELSE [kind |-> "ok", count |-> count,
              list |-> SubSeq(ranked, 1, Min(count, Len(ranked)))]

(***************************************************************************)
(* Matcher.adapt(query, result).  `!=' on two attribute objects is the     *)
(* default comparison of Python 2 (the class defines no __ne__): it is     *)
(* true exactly when the two are different objects.                        *)
(***************************************************************************)
AttrNotEqual(h, x, y) == x # y

\* the comparison the other way round: sim < query.similarity(adapted)
WorseFlipped(newsim, sim) == RLess(sim, newsim)

\* query.similarity(adapted) < sim
Worse(newsim, sim) == RLess(newsim, sim)

\* Matcher.adapt from `sim,best = result[0]' on
MatcherAdaptBest(h, cs, q, result, order) ==
    LET sim == result[1][1]
        best == cs[result[1][2]]
        candidates == {k \in DOMAIN q : Adaptable(h[q[k]].name)}
        adaptable == {k \in candidates \cap DOMAIN best :
                          AttrNotEqual(h, q[k], best[k])}
        adapted == CaseAdapt(h, best, q, order)
        newsim == CaseSimilarity(adapted.heap, q, adapted.case)
    IN  IF ~(candidates \subseteq DOMAIN best)
        THEN [kind |-> "KeyError", why |-> "best", heap |-> h, case |-> EmptyCase]
        ELSE IF adaptable = {}
        THEN [kind |-> "AdaptationError", why |-> "nodiff", heap |-> h,
              case |-> EmptyCase]
        ELSE IF adapted.kind # "ok"
        THEN [kind |-> adapted.kind, why |-> "adapt", heap |-> h, case |-> EmptyCase]
        ELSE IF newsim.kind # "ok"
        THEN [kind |-> newsim.kind, why |-> "similarity", heap |-> h,
              case |-> EmptyCase]
        ELSE IF Worse(newsim.value, sim)
        THEN [kind |-> "AdaptationError", why |-> "worse", heap |-> h,
              case |-> EmptyCase]
        ELSE [kind |-> "ok", why |-> "adapted", heap |-> adapted.heap,
              case |-> adapted.case]

\* an adapt without the `if not result' guard: result[0] fails on an empty list
MatcherAdaptUnguarded(h, cs, q, result, order) ==
    IF result = <<>>
    THEN [kind |-> "IndexError", why |-> "empty", heap |-> h, case |-> EmptyCase]
    ELSE MatcherAdaptBest(h, cs, q, result, order)

MatcherAdapt(h, cs, q, result, order) ==
    IF result = <<>>
    THEN [kind |-> "AdaptationError", why |-> "empty", heap |-> h, case |-> EmptyCase]
    ELSE MatcherAdaptBest(h, cs, q, result, order)

(***************************************************************************)
(* The worlds the model starts from: a query and a case base, built from   *)
(* raw values by Case.__setitem__.                                         *)
(***************************************************************************)
\* the values a field takes in the worlds of one case and a query
Values(n) ==
    CASE n = "NumberOfPersons" -> 0..MaxVal
      [] n = "JourneyCode" -> {1, 2}
      [] OTHER -> 1..MaxVal

\* the names and the values of the matcher's worlds
MatchNames == {"NumberOfPersons", "Price"}

MatchValues(n) == {1, 2}

\* the raw contents of a case over the names N with values V: a value for
\* each name it holds
RECURSIVE ContentsOver(_, _)
ContentsOver(S, V) ==
    IF S = {} THEN {EmptyCase}
    ELSE LET n == CHOOSE m \in S : TRUE
         IN  {(n :> v) @@ f : v \in V[n], f \in ContentsOver(S \ {n}, V)}

Contents(N, V) == UNION {ContentsOver(S, V) : S \in SUBSET N}

\* the names whose matching flag a world may clear (the matching setter)
Unmatchable == {"JourneyCode"}

\* addresses: the query's own objects come first, then one block per case
Stride == Cardinality(ClassNames) + 1
QueryAddr(n) == NameOrd(n)
CaseAddr(block, n) == block * Stride + NameOrd(n)

\* the names of the query whose object is the one case j holds (the query
\* was filled with that case's Attribute instances)
SharedNames(qv, cv, j) ==
    IF j = 0 THEN {}
    ELSE {n \in DOMAIN qv \cap DOMAIN cv[j] : qv[n] = cv[j][n]}

\* the world: the objects of the cases cv (case i in address block
\* block[i]), whose attributes in `offc' have their matching flag cleared,
\* and of the query qv, whose attributes in `off' have their matching flag
\* cleared and which shares its objects with case j
WorldCases(cv, block) ==
    [i \in DOMAIN cv |-> [n \in DOMAIN cv[i] |-> CaseAddr(block[i], n)]]

WorldQuery(qv, cv, block, j) ==
    [n \in DOMAIN qv |->
        IF n \in SharedNames(qv, cv, j) THEN CaseAddr(block[j], n) ELSE QueryAddr(n)]

WorldHeap(qv, off, cv, offc, block, j) ==
    LET qa == {QueryAddr(n) : n \in DOMAIN qv \ SharedNames(qv, cv, j)}
        ca == UNION {{CaseAddr(block[i], n) : n \in DOMAIN cv[i]} : i \in DOMAIN cv}
        qn(a) == CHOOSE n \in DOMAIN qv : QueryAddr(n) = a
        ci(a) == CHOOSE i \in DOMAIN cv : \E n \in DOMAIN cv[i] : CaseAddr(block[i], n) = a
        cn(a) == CHOOSE n \in DOMAIN cv[ci(a)] : CaseAddr(block[ci(a)], n) = a
    IN  [a \in qa \cup ca |->
            IF a \in qa
            THEN [name |-> qn(a), value |-> qv[qn(a)], matching |-> qn(a) \notin off]
            ELSE [name |-> cn(a), value |-> cv[ci(a)][cn(a)],
                  matching |-> cn(a) \notin offc]]

NoSim == [kind |-> "none", value |-> RInt(0)]
NoCaseAdapt == [kind |-> "none", case |-> EmptyCase, total_adapt |-> RInt(1)]
NoMatch == [kind |-> "none", count |-> 0, list |-> <<>>]
NoAdapt == [kind |-> "none", why |-> "none", case |-> EmptyCase]
NoAttr == [kind |-> "none", self |-> 0, other |-> 0, value |-> RInt(0)]

\* a raw value: a string of characters, a word in some letter case, a
\* float or None
RawStr(cs) == [type |-> "str", chars |-> cs, word |-> "", style |-> "", num |-> RInt(0)]
RawWord(w, st) == [type |-> "word", chars |-> <<>>, word |-> w, style |-> st, num |-> RInt(0)]
RawFloat(q) == [type |-> "float", chars |-> <<>>, word |-> "", style |-> "", num |-> q]
RawNone == [type |-> "none", chars |-> <<>>, word |-> "", style |-> "", num |-> RInt(0)]

NoSet == [kind |-> "none", how |-> "none", count |-> 0, name |-> "", addr |-> 0,
          raw |-> RawNone]

NoTreeOut == [kind |-> "none", names |-> <<>>, found |-> FALSE, value |-> RInt(0)]

\* what the geocoder answers when it resolves nothing, and the entry the
\* statement after the raise in Place.__init__ would store
Unresolved == [place_name |-> "", coords |-> ""]
Sentinel == [place_name |-> "None", coords |-> "None"]

NoPlaceOut == [kind |-> "none", name |-> <<>>, queried |-> FALSE, answer |-> Unresolved,
               place_name |-> "", coords |-> ""]

\* Interface._default_config, Interface.result = [] and no command given
DefaultConfig == [retrieve |-> 2, adapt |-> TRUE, auto_run |-> TRUE]

NoResult == [kind |-> "none", query |-> EmptyCase, list |-> <<>>]

NoRun == [kind |-> "none", matched |-> <<>>, adapt |-> "none"]

NoCmd == [count |-> 0, cmd |-> "none", kind |-> "none", run |-> NoRun]

ConsoleIdle ==
    /\ config = DefaultConfig
    /\ self_result = NoResult
    /\ cmdOut = NoCmd

\* the state beside the cases when nothing has been called
SideInit ==
    /\ tree = HolidayTree
    /\ treeOut = NoTreeOut
    /\ location_cache = <<>>
    /\ places = {}
    /\ placeOut = NoPlaceOut
    /\ ConsoleIdle

InitWorld(qv, off, cv, offc, block, j) ==
    /\ heap = WorldHeap(qv, off, cv, offc, block, j)
    /\ cases = WorldCases(cv, block)
    /\ query = WorldQuery(qv, cv, block, j)
    /\ simOut = NoSim
    /\ caseAdaptOut = NoCaseAdapt
    /\ matchOut = NoMatch
    /\ adaptOut = NoAdapt
    /\ attrOut = NoAttr
    /\ setOut = NoSet
    /\ SideInit

\* the address blocks of n cases: in the order of the case base or against it
Blocks(n) ==
    {[i \in 1..n |-> i]} \cup {[i \in 1..n |-> n + 1 - i]}

\* the matcher's worlds: up to MaxCases stored cases and a query over
\* MatchNames, each holding at least one attribute
Init ==
    \E n \in 0..MaxCases :
      \E cv \in [1..n -> Contents(MatchNames, [m \in MatchNames |-> MatchValues(m)]) \ {EmptyCase}],
         qv \in Contents(MatchNames, [m \in MatchNames |-> MatchValues(m)]) \ {EmptyCase} :
        \E block \in Blocks(n), j \in 0..n :
          /\ j # 0 => SharedNames(qv, cv, j) # {}
          /\ InitWorld(qv, {}, cv, {}, block, j)

\* the worlds of one case and a query over all the names of the model
InitCase ==
    \E cv \in [1..1 -> Contents(AttrNames, [m \in AttrNames |-> Values(m)])],
       qv \in Contents(AttrNames, [m \in AttrNames |-> Values(m)]) :
      \E off \in SUBSET (DOMAIN qv \cap Unmatchable) :
        \E offc \in {{}, off \cap DOMAIN cv[1]} :
          InitWorld(qv, off, cv, offc, [i \in 1..1 |-> 1], 0)

(***************************************************************************)
(* The operations.  Each leaves its outcome in the variable of its name;   *)
(* the objects a dropped outcome held are freed.                           *)
(***************************************************************************)
\* the objects the query and the case base hold
Rooted(h) ==
    LET used == (UNION {{cases[i][n] : n \in DOMAIN cases[i]} : i \in DOMAIN cases})
                    \cup {query[n] : n \in DOMAIN query}
    IN  [a \in used |-> h[a]]

\* query.similarity(cases[i])
Similarity(i) ==
    /\ simOut' = CaseSimilarity(heap, query, cases[i])
    /\ caseAdaptOut' = NoCaseAdapt
    /\ heap' = Rooted(heap)
    /\ UNCHANGED <<cases, query, matchOut, adaptOut, attrOut, setOut, sideVars>>

\* cases[i].adapt(query)
Adapt(i) ==
    \E order \in NameOrders(DOMAIN cases[i]) :
      LET r == CaseAdapt(Rooted(heap), cases[i], query, order)
      IN  /\ caseAdaptOut' = [kind |-> r.kind, case |-> r.case,
                              total_adapt |-> r.total_adapt]
          /\ heap' = r.heap
          /\ simOut' = NoSim
          /\ UNCHANGED <<cases, query, matchOut, adaptOut, attrOut, setOut, sideVars>>

\* matcher.match(query, count)
Match(count) ==
    /\ matchOut' = MatcherMatch(heap, cases, query, count)
    /\ adaptOut' = NoAdapt
    /\ heap' = Rooted(heap)
    /\ UNCHANGED <<cases, query, simOut, caseAdaptOut, attrOut, setOut, sideVars>>

\* matcher.adapt(query, result), result the list the last match returned
AdaptResult ==
    /\ matchOut.kind = "ok"
    /\ LET best == IF matchOut.list = <<>> THEN EmptyCase
                    ELSE cases[matchOut.list[1][2]]
       IN  \E order \in NameOrders(DOMAIN best) :
             LET r == MatcherAdapt(Rooted(heap), cases, query, matchOut.list, order)
             IN  /\ adaptOut' = [kind |-> r.kind, why |-> r.why, case |-> r.case]
                 /\ heap' = r.heap
    /\ UNCHANGED <<cases, query, simOut, caseAdaptOut, matchOut, attrOut, setOut, sideVars>>

NextCase == \E i \in DOMAIN cases : Similarity(i) \/ Adapt(i)

Next == (\E count \in 0..MaxCases : Match(count)) \/ AdaptResult

Spec == Init /\ [][Next]_vars

SpecCase == InitCase /\ [][NextCase]_vars

(***************************************************************************)
(* Two attributes of one class and the call a.similarity(b).               *)
(***************************************************************************)
\* the names of the nodes of a tree
RECURSIVE TreeNames(_)
TreeNames(t) == {t[1]} \cup UNION {TreeNames(t[3][k]) : k \in DOMAIN t[3]}

\* the classes that match by table
TableNames == {"Transportation"}

\* Transportation inherits Attribute._set_value, which stores any value:
\* a value the table does not hold
OtherTransport == {"Bike"}

\* the values an attribute of class n takes: what its _set_value accepts
ClassValues(n) ==
    CASE n = "HolidayType" -> TreeNames(HolidayTree)
      [] n = "Season" -> {Months[i] : i \in DOMAIN Months}
      [] n = "Transportation" -> TransportValues \cup OtherTransport
      [] n = "JourneyCode" -> Values(n)
      [] OTHER -> 1..MaxAttrVal

\* two attribute objects a and b of one class, held by no case
InitAttr ==
    \E n \in ClassNames :
      \E v \in ClassValues(n), w \in ClassValues(n) :
        /\ heap = (1 :> [name |-> n, value |-> v, matching |-> TRUE])
                    @@ (2 :> [name |-> n, value |-> w, matching |-> TRUE])
        /\ cases = <<>>
        /\ query = EmptyCase
        /\ simOut = NoSim
        /\ caseAdaptOut = NoCaseAdapt
        /\ matchOut = NoMatch
        /\ adaptOut = NoAdapt
        /\ attrOut = NoAttr
        /\ setOut = NoSet
        /\ SideInit

\* heap[a].similarity(heap[b])
AttributeSimilarity(a, b) ==
    /\ heap[a].name = heap[b].name
    /\ LET r == IF heap[a].name \in TableNames
                 THEN TableMatchOutcome(heap[a], heap[b])
                 ELSE [kind |-> "ok", value |-> AttrSimilarity(heap[a], heap[b])]
       IN  attrOut' = [kind |-> r.kind, self |-> a, other |-> b, value |-> r.value]
    /\ UNCHANGED <<heap, cases, query, simOut, caseAdaptOut, matchOut, adaptOut, setOut, sideVars>>

\* the factors an attribute is adjusted by
Factors == {Rat(1, 3), Rat(3, 2), Rat(2, 1)}

\* heap[a].adjusted(factor), once, on one of the two attributes: LinearAdjust
\* is a base class of Price alone
AttributeAdjusted(a, factor) ==
    /\ Adjustable(heap[a].name)
    /\ DOMAIN heap = {1, 2}
    /\ heap' = heap @@ (AdjustedAddr(heap, a) :> Adjusted(heap[a], factor))
    /\ attrOut' = [kind |-> "adjusted", self |-> a, other |-> AdjustedAddr(heap, a),
                   value |-> factor]
    /\ UNCHANGED <<cases, query, simOut, caseAdaptOut, matchOut, adaptOut, setOut, sideVars>>

NextAttr ==
    \/ \E a \in DOMAIN heap, b \in DOMAIN heap : AttributeSimilarity(a, b)
    \/ \E a \in DOMAIN heap, factor \in Factors : AttributeAdjusted(a, factor)

SpecAttr == InitAttr /\ [][NextAttr]_vars

(***************************************************************************)
(* One case c over all the classes and the call c.similarity(c): the query *)
(* is the case itself.                                                     *)
(***************************************************************************)
\* the values of the cases compared with themselves
SelfValues(n) ==
    CASE n = "HolidayType" -> {"City"}
      [] n = "Season" -> {"May"}
      [] n = "Transportation" -> {"Car", "Plane"}
      [] n = "NumberOfPersons" -> 1..MaxVal
      [] OTHER -> Values(n)

InitSelf ==
    \E cv \in [1..1 -> Contents(ClassNames, [m \in ClassNames |-> SelfValues(m)])
                          \ {EmptyCase}] :
      InitWorld(cv[1], {}, cv, {}, [i \in 1..1 |-> 1], 1)

SpecSelf == InitSelf /\ [][NextCase]_vars

(***************************************************************************)
(* Building a case by item assignment: Case.__setitem__ on the query,      *)
(* with a raw value or with an Attribute instance.                         *)
(***************************************************************************)
\* int(s) of a string: an optional sign and decimal digits
Digits == {"0", "1"}

DigitValue(c) == IF c = "1" THEN 1 ELSE 0

IsDigits(cs) == cs # <<>> /\ \A i \in DOMAIN cs : cs[i] \in Digits

Unsigned(cs) == IF cs # <<>> /\ Head(cs) \in {"-", "+"} THEN Tail(cs) ELSE cs

IsIntLiteral(cs) == IsDigits(Unsigned(cs))

RECURSIVE DecValue(_)
DecValue(cs) ==
    IF cs = <<>> THEN 0
    ELSE 10 * DecValue(SubSeq(cs, 1, Len(cs) - 1)) + DigitValue(cs[Len(cs)])

IntOfString(cs) ==
    IF cs # <<>> /\ Head(cs) = "-" THEN -DecValue(Unsigned(cs))
    ELSE DecValue(Unsigned(cs))

\* Numeric._set_value on a raw value: int(value), ValueError turned into
\* RuntimeError, any other exception passed on
NumericSetValue(raw) ==
    CASE raw.type = "str" ->
           IF IsIntLiteral(raw.chars)
           THEN [kind |-> "ok", value |-> IntOfString(raw.chars)]
           ELSE [kind |-> "RuntimeError", value |-> 0]
      [] raw.type = "word" -> [kind |-> "RuntimeError", value |-> 0]
      [] raw.type = "float" -> [kind |-> "ok", value |-> RTrunc(raw.num)]
      [] OTHER -> [kind |-> "TypeError", value |-> 0]

\* value.capitalize() of a word gives the word in its capitalized
\* spelling, whatever the letter case of the raw value
Capitalize(raw) == raw.word

\* HolidayType._set_value: TreeMatch._set_value(value.capitalize())
HolidayTypeSetValue(raw) ==
    CASE raw.type = "word" ->
           IF FindPath(HolidayTree, Capitalize(raw)) = <<>>
           THEN [kind |-> "RuntimeError", value |-> ""]
           ELSE [kind |-> "ok", value |-> Capitalize(raw)]
      [] raw.type = "str" -> [kind |-> "RuntimeError", value |-> ""]
      [] OTHER -> [kind |-> "AttributeError", value |-> ""]

\* Season._set_value
SeasonSetValue(raw) ==
    CASE raw.type = "word" ->
           IF \E i \in DOMAIN Months : Months[i] = Capitalize(raw)
           THEN [kind |-> "ok", value |-> Capitalize(raw)]
           ELSE [kind |-> "ValueError", value |-> ""]
      [] raw.type = "str" -> [kind |-> "ValueError", value |-> ""]
      [] OTHER -> [kind |-> "AttributeError", value |-> ""]

\* the classes of the model a raw value is assigned to
BuildNames == {"HolidayType", "NumberOfPersons", "Price", "Season"}

\* getattr(attribute_names, name)(value) for a class of the model
Construct(name, raw) ==
    CASE name = "HolidayType" -> HolidayTypeSetValue(raw)
      [] name = "Season" -> SeasonSetValue(raw)
      [] OTHER -> NumericSetValue(raw)

\* names of attribute_names that are no classes: the modules it imports
ModuleGlobals == {"re", "place"}

\* names the module attribute_names does not have
UnknownNames == {"Colour"}

\* hasattr(attribute_names, name)
HasAttr(name) == name \in ClassNames \cup ModuleGlobals

\* the outcome of self[name] = raw on the case self: how it ends and, when
\* it returns, the value of the new attribute
SetItem(name, raw) ==
    IF ~HasAttr(name) THEN [kind |-> "KeyError", value |-> 0]
    ELSE IF name \in ModuleGlobals THEN [kind |-> "TypeError", value |-> 0]
    ELSE Construct(name, raw)

\* the raw values of the model
RawLen == 2

Alphabet == {"-", "0", "1", "x"}

Words == {"City", "Mars", "May"}

Styles == {"capitalized", "lower", "upper"}

RawValues ==
    {RawStr(cs) : cs \in UNION {[1..k -> Alphabet] : k \in 0..RawLen}}
      \cup {RawWord(w, st) : w \in Words, st \in Styles}
      \cup {RawFloat(Rat(5, 2)), RawNone}

\* the number of item assignments of a run
MaxSets == 2

\* an empty query, Case()
InitBuild ==
    /\ heap = [a \in {} |-> 0]
    /\ cases = <<>>
    /\ query = EmptyCase
    /\ simOut = NoSim
    /\ caseAdaptOut = NoCaseAdapt
    /\ matchOut = NoMatch
    /\ adaptOut = NoAdapt
    /\ attrOut = NoAttr
    /\ setOut = NoSet
    /\ SideInit

\* the objects the case c holds
Held(h, c) == [a \in {c[n] : n \in DOMAIN c} |-> h[a]]

\* query[name] = raw
SetItemRaw(name, raw) ==
    /\ setOut.count < MaxSets
    /\ LET r == SetItem(name, raw)
           a == NewAddr(heap)
       IN  IF r.kind = "ok"
           THEN /\ query' = (name :> a) @@ query
                /\ heap' = Held((a :> [name |-> name, value |-> r.value,
                                       matching |-> TRUE]) @@ heap, query')
                /\ setOut' = [kind |-> "ok", how |-> "raw",
                              count |-> setOut.count + 1,
                              name |-> name, addr |-> a, raw |-> raw]
           ELSE /\ setOut' = [kind |-> r.kind, how |-> "raw",
                              count |-> setOut.count + 1,
                              name |-> name, addr |-> 0, raw |-> raw]
                /\ UNCHANGED <<heap, query>>
    /\ UNCHANGED <<cases, simOut, caseAdaptOut, matchOut, adaptOut, attrOut, sideVars>>

\* query[name] = query[held], an Attribute instance the case holds: it is
\* stored under the key as it is
SetItemAttr(name, held) ==
    /\ setOut.count < MaxSets
    /\ held \in DOMAIN query
    /\ query' = (name :> query[held]) @@ query
    /\ heap' = Held(heap, query')
    /\ setOut' = [kind |-> "ok", how |-> "attr", count |-> setOut.count + 1,
                  name |-> name, addr |-> query[held], raw |-> RawNone]
    /\ UNCHANGED <<cases, simOut, caseAdaptOut, matchOut, adaptOut, attrOut, sideVars>>

NextBuild ==
    \/ \E name \in BuildNames \cup ModuleGlobals \cup UnknownNames, raw \in RawValues :
         SetItemRaw(name, raw)
    \/ \E name \in BuildNames \cup UnknownNames, held \in BuildNames \cup UnknownNames :
         SetItemAttr(name, held)

SpecBuild == InitBuild /\ [][NextBuild]_vars

(***************************************************************************)
(* A Tree built from a nested list and the call                            *)
(* tree.find_common_value(names).                                          *)
(***************************************************************************)
\* the tree of the demonstration at the end of tree.py
DemoTree ==
    <<"root", Rat(0, 1),
      << <<"1", Rat(1, 2),
            << <<"1.1", Rat(3, 4),
                  << <<"1.1.1", Rat(9, 10), <<>> >>,
                     <<"1.1.2", Rat(23, 25), <<>> >> >> >>,
               <<"1.2", Rat(3, 5),
                  << <<"1.2.1", Rat(9, 10), <<>> >> >> >> >> >> >> >>

\* TreeMatch._match_tree: a root without children
RootTree == <<"root", Rat(0, 1), <<>> >>

\* a tree that holds the name x twice
TwiceTree ==
    <<"r", Rat(0, 1),
      << <<"a", Rat(1, 2), << <<"x", Rat(1, 1), <<>> >> >> >>,
         <<"b", Rat(3, 5), << <<"x", Rat(9, 10), <<>> >>,
                              <<"y", Rat(4, 5), <<>> >> >> >> >> >>

Trees == {DemoTree, RootTree, TwiceTree}

MaxNames == 3

\* the lists of names asked for: names of the tree and one it lacks
NameLists(t) ==
    UNION {[1..n -> TreeNames(t) \cup {"nowhere"}] : n \in 0..MaxNames}

InitTree ==
    /\ heap = [a \in {} |-> 0]
    /\ cases = <<>>
    /\ query = EmptyCase
    /\ simOut = NoSim
    /\ caseAdaptOut = NoCaseAdapt
    /\ matchOut = NoMatch
    /\ adaptOut = NoAdapt
    /\ attrOut = NoAttr
    /\ setOut = NoSet
    /\ location_cache = <<>>
    /\ places = {}
    /\ placeOut = NoPlaceOut
    /\ ConsoleIdle
    /\ tree \in Trees
    /\ \E names \in NameLists(tree) : treeOut = [NoTreeOut EXCEPT !.names = names]

\* tree.find_common_value(names), names being the list the state holds
FindCommonValueCall ==
    LET r == FindCommonValue(tree, treeOut.names)
    IN  /\ treeOut' = [kind |-> IF r.raised = "" THEN "ok" ELSE r.raised,
                        names |-> treeOut.names, found |-> r.found, value |-> r.value]
        /\ UNCHANGED <<coreVars, tree, location_cache, places, placeOut, consoleVars>>

NextTree == FindCommonValueCall

SpecTree == InitTree /\ [][NextTree]_vars

(***************************************************************************)
(* A case base of three cases that differ in Price alone, priced 300, 500  *)
(* and 1000 in any order, and a query of Price 450.                        *)
(***************************************************************************)
\* the orders of the three prices in the case base
PriceOrders ==
    {o \in [1..3 -> {300, 500, 1000}] : \A i, j \in 1..3 : o[i] = o[j] => i = j}

\* what the three cases hold beside the price: nothing, or a number of persons
CommonContents ==
    Contents({"NumberOfPersons"}, [m \in {"NumberOfPersons"} |-> 1..MaxVal])

\* the query asks for the price, and may ask for what the cases share
InitPrices ==
    \E o \in PriceOrders, common \in CommonContents :
      \E asked \in SUBSET DOMAIN common, block \in Blocks(3) :
        InitWorld(("Price" :> 450) @@ [n \in asked |-> common[n]], {},
                  [i \in 1..3 |-> ("Price" :> o[i]) @@ common], {}, block, 0)

NextPrices ==
    \/ \E i \in DOMAIN cases : Similarity(i)
    \/ \E count \in 0..Len(cases) : Match(count)

SpecPrices == InitPrices /\ [][NextPrices]_vars

(***************************************************************************)
(* place.Place.  A name is a Python 2 byte string, modelled as the         *)
(* sequence of its bytes: an ASCII letter is one byte, the letters o-slash *)
(* and O-slash are the UTF-8 pairs C3 B8 and C3 98.  The geocoder is the   *)
(* world outside: asked for a key it answers with a place or with nothing. *)
(***************************************************************************)
\* str.lower() on one byte: A-Z become a-z, every other byte is kept
LowerByte(c) ==
    CASE c = "A" -> "a"
      [] c = "F" -> "f"
      [] c = "N" -> "n"
      [] c = "O" -> "o"
      [] c = "Z" -> "z"
      [] OTHER -> c

\* name.lower()
Lower(name) == [i \in DOMAIN name |-> LowerByte(name[i])]

\* correction_table, the entry "fano": "fan\xc3\xb8"
CorrectionTable == (<<"f", "a", "n", "o">> :> <<"f", "a", "n", "C3", "B8">>)

\* the key Place.__init__ looks up
CacheKey(name) ==
    IF Lower(name) \in DOMAIN CorrectionTable
    THEN CorrectionTable[Lower(name)] ELSE Lower(name)

\* the names constructions are asked for
PlaceNames ==
    {<<"F", "a", "n", "o">>, <<"F", "A", "N", "O">>,
     <<"f", "a", "n", "C3", "B8">>, <<"F", "A", "N", "C3", "98">>,
     <<"O", "z">>, <<"o", "z">>}

\* what the geocoder may answer: search_value[0], a (place_name, coords) pair
Answers ==
    {[place_name |-> "here", coords |-> "55N"], [place_name |-> "there", coords |-> "31N"]}

\* the except branch that stores the entry instead of raising
GeocodeFailedSentinel(cache, key) ==
    [kind |-> "ok", cache |-> (key :> Sentinel) @@ cache]

\* the except branch of Place.__init__: raise ValueError; the assignment
\* after the raise is never executed
GeocodeFailed(cache, key) ==
    [kind |-> "ValueError", cache |-> cache]

\* the location cache is empty or was loaded from the file a former run saved
InitPlace ==
    /\ heap = [a \in {} |-> 0]
    /\ cases = <<>>
    /\ query = EmptyCase
    /\ simOut = NoSim
    /\ caseAdaptOut = NoCaseAdapt
    /\ matchOut = NoMatch
    /\ adaptOut = NoAdapt
    /\ attrOut = NoAttr
    /\ setOut = NoSet
    /\ tree = HolidayTree
    /\ treeOut = NoTreeOut
    /\ \/ location_cache = <<>>
       \/ \E name \in PlaceNames, answer \in Answers :
            location_cache = (CacheKey(name) :> answer)
    /\ places = {}
    /\ placeOut = NoPlaceOut
    /\ ConsoleIdle

\* Place(name), the geocoder answering `answer' if it is asked
PlaceInit(name, answer) ==
    LET key == CacheKey(name)
        asked == key \notin DOMAIN location_cache
        r == IF ~asked THEN [kind |-> "ok", cache |-> location_cache]
             ELSE IF answer = Unresolved THEN GeocodeFailed(location_cache, key)
             ELSE [kind |-> "ok", cache |-> (key :> answer) @@ location_cache]
    IN  /\ location_cache' = r.cache
        /\ placeOut' = [kind |-> r.kind, name |-> name, queried |-> asked,
                        answer |-> IF asked THEN answer ELSE Unresolved,
                        place_name |-> IF r.kind = "ok" THEN r.cache[key].place_name ELSE "",
                        coords |-> IF r.kind = "ok" THEN r.cache[key].coords ELSE ""]
        /\ places' = IF r.kind = "ok"
                     THEN places \cup {[name |-> name,
                                        place_name |-> r.cache[key].place_name,
                                        coords |-> r.cache[key].coords]}
                     ELSE places
        /\ UNCHANGED <<coreVars, tree, treeOut, consoleVars>>

NextPlace == \E name \in PlaceNames, answer \in Answers \cup {Unresolved} : PlaceInit(name, answer)

SpecPlace == InitPlace /\ [][NextPlace]_vars

(***************************************************************************)
(* The matcher over cases whose numbers of persons start at 0, the least   *)
(* value Numeric._set_value stores for a string of digits.                 *)
(***************************************************************************)
InitAdapt ==
    \E n \in 1..MaxCases :
      \E cv \in [1..n -> Contents(MatchNames, [m \in MatchNames |-> Values(m)]) \ {EmptyCase}],
         qv \in Contents(MatchNames, [m \in MatchNames |-> Values(m)]) \ {EmptyCase} :
        \E block \in Blocks(n) :
          InitWorld(qv, {}, cv, {}, block, 0)

SpecAdapt == InitAdapt /\ [][Next]_vars

(***************************************************************************)
(* The console: Interface.do_query.  A command ends by returning (what it  *)
(* prints is left out) or by raising; the state is then as the statements  *)
(* executed so far have left it.                                           *)
(***************************************************************************)
\* the number of commands of a session
MaxCommands == 3

\* the values of the stored cases, the names and the raw values of the
\* commands
ConsoleValues(n) == IF n = "NumberOfPersons" THEN 0..1 ELSE {1}

CommandNames == MatchNames \cup UnknownNames

CommandRaws == {RawStr(<<"0">>), RawStr(<<"1">>), RawStr(<<"x">>)}

\* an entry of a result list: (similarity, case) or ('adapted', case)
Entry(tag, sim, index, case) ==
    [tag |-> tag, sim |-> sim, index |-> index, case |-> case]

\* the objects a session still refers to
KeepHeap(h, q, res) ==
    LET held(c) == {c[n] : n \in DOMAIN c}
        used == (UNION {held(cases[i]) : i \in DOMAIN cases})
                  \cup held(q) \cup held(res.query)
                  \cup UNION {held(res.list[i].case) : i \in DOMAIN res.list}
    IN  [a \in used |-> h[a]]

\* matcher.match of a run: not called on an empty query
RunMatch(h, q) ==
    IF q = EmptyCase THEN [kind |-> "noquery", list |-> <<>>]
    ELSE MatcherMatch(h, cases, q, config.retrieve)

\* the orders in which best.adapt may visit the attributes of the best match
BestOrders(q, m) ==
    IF q # EmptyCase /\ m.kind = "ok" /\ m.list # <<>>
    THEN NameOrders(DOMAIN cases[m.list[1][2]])
    ELSE {<<>>}

\* matcher.adapt of a run: called when there is a result and config.adapt
RunAdapt(h, q, m, order) ==
    IF m.kind = "ok" /\ m.list # <<>> /\ config.adapt
    THEN MatcherAdapt(h, cases, q, m.list, order)
    ELSE [kind |-> "none", why |-> "", heap |-> h, case |-> EmptyCase]

\* do_query("run") on the query q, given the outcomes m of matcher.match and
\* a of matcher.adapt: what it raises, the heap and Interface.result it
\* leaves, and how far it got
RunQuery(h, q, res, m, a) ==
    LET entries == [i \in DOMAIN m.list |->
                      Entry("match", m.list[i][1], m.list[i][2], cases[m.list[i][2]])]
        run(kind, adapt) == [kind |-> kind, matched |-> m.list, adapt |-> adapt]
    IN  IF q = EmptyCase
        THEN [raised |-> "", heap |-> h, result |-> res, run |-> [NoRun EXCEPT !.kind = "noquery"]]
        ELSE IF m.kind # "ok"
        THEN [raised |-> m.kind, heap |-> h, result |-> res, run |-> [NoRun EXCEPT !.kind = "raised"]]
        ELSE IF m.list = <<>>
        THEN [raised |-> "", heap |-> h, result |-> res, run |-> run("noresult", "none")]
        ELSE IF ~config.adapt
        THEN [raised |-> "", heap |-> h, run |-> run("stored", "none"),
              result |-> [kind |-> "stored", query |-> q, list |-> entries]]
        ELSE IF a.kind = "ok"
        THEN [raised |-> "", heap |-> a.heap, run |-> run("stored", "ok"),
              result |-> [kind |-> "stored", query |-> q,
                          list |-> <<Entry("adapted", RInt(0), 0, a.case)>> \o entries]]
        ELSE IF a.kind = "AdaptationError"
        THEN [raised |-> "", heap |-> h, run |-> run("stored", a.kind),
              result |-> [kind |-> "stored", query |-> q, list |-> entries]]
        ELSE [raised |-> a.kind, heap |-> h, result |-> res, run |-> run("raised", a.kind)]

\* the state a command leaves: the query q, the outcome r of the run it
\* made, if any, and what it raised to its caller
Leave(cmd, q, r, raised) ==
    /\ query' = q
    /\ self_result' = r.result
    /\ heap' = KeepHeap(r.heap, q, r.result)
    /\ cmdOut' = [count |-> cmdOut.count + 1, cmd |-> cmd,
                  kind |-> IF raised = "" THEN "ok" ELSE raised, run |-> r.run]
    /\ UNCHANGED <<cases, simOut, caseAdaptOut, matchOut, adaptOut, attrOut, setOut,
                   tree, treeOut, location_cache, places, placeOut, config>>

\* a command that made no run
Quiet(h) == [raised |-> "", heap |-> h, result |-> self_result, run |-> NoRun]

\* a command that runs the query q over the heap h and catches the
\* exceptions of `catch'
Run(cmd, h, q, catch) ==
    \E m \in {RunMatch(h, q)} :
      \E order \in BestOrders(q, m) :
        \E a \in {RunAdapt(h, q, m, order)} :
          \E r \in {RunQuery(h, q, self_result, m, a)} :
            Leave(cmd, q, r, IF r.raised \in catch THEN "" ELSE r.raised)

\* query reset
QueryReset ==
    /\ cmdOut.count < MaxCommands
    /\ Leave("reset", EmptyCase, Quiet(heap), "")

\* query set <name> <raw>: KeyError and ValueError are caught, whether the
\* assignment raised them or the run
QuerySet(name, raw) ==
    /\ cmdOut.count < MaxCommands
    /\ LET s == SetItem(name, raw)
           a == NewAddr(heap)
           q == (name :> a) @@ query
           h == (a :> [name |-> name, value |-> s.value, matching |-> TRUE]) @@ heap
           caught(e) == IF e \in {"KeyError", "ValueError"} THEN "" ELSE e
       IN  IF s.kind # "ok" THEN Leave("set", query, Quiet(heap), caught(s.kind))
           ELSE IF ~config.auto_run THEN Leave("set", q, Quiet(h), "")
           ELSE Run("set", h, q, {"KeyError", "ValueError"})

\* query unset <name>: KeyError is caught
QueryUnset(name) ==
    /\ cmdOut.count < MaxCommands
    /\ LET q == [n \in DOMAIN query \ {name} |-> query[n]]
       IN  IF name \notin DOMAIN query THEN Leave("unset", query, Quiet(heap), "")
           ELSE IF ~config.auto_run THEN Leave("unset", q, Quiet(heap), "")
           ELSE Run("unset", heap, q, {"KeyError"})

\* query run
QueryRun ==
    /\ cmdOut.count < MaxCommands
    /\ Run("run", heap, query, {})

\* a console over a case base, with an empty query and no result
InitConsole ==
    /\ \E n \in 0..MaxCases :
         \E cv \in [1..n -> Contents(MatchNames, [m \in MatchNames |-> ConsoleValues(m)])
                              \ {EmptyCase}] :
           /\ cases = WorldCases(cv, [i \in 1..n |-> i])
           /\ heap = WorldHeap(EmptyCase, {}, cv, {}, [i \in 1..n |-> i], 0)
    /\ query = EmptyCase
    /\ simOut = NoSim
    /\ caseAdaptOut = NoCaseAdapt
    /\ matchOut = NoMatch
    /\ adaptOut = NoAdapt
    /\ attrOut = NoAttr
    /\ setOut = NoSet
    /\ tree = HolidayTree
    /\ treeOut = NoTreeOut
    /\ location_cache = <<>>
    /\ places = {}
    /\ placeOut = NoPlaceOut
    /\ config \in [retrieve : {1, 2}, adapt : BOOLEAN, auto_run : BOOLEAN]
    /\ self_result = NoResult
    /\ cmdOut = NoCmd

NextConsole ==
    \/ QueryReset
    \/ \E name \in CommandNames, raw \in CommandRaws : QuerySet(name, raw)
    \/ \E name \in CommandNames : QueryUnset(name)
    \/ QueryRun

SpecConsole == InitConsole /\ [][NextConsole]_vars







(***************************************************************************)
(* Properties of Matcher.match, checked under Spec.                        *)
(***************************************************************************)
\* query.similarity(cases[i]) in the current state
Score(i) == CaseSimilarity(heap, query, cases[i])

\* the indices of the cases a ranked list holds
Listed(l) == {l[i][2] : i \in DOMAIN l}

\* Whenever match returns, it returns min(count, N) pairs (score, case) of
\* distinct cases of the case base, each with the score of its case, in
\* non-increasing order of score, and no case left out scores higher than
\* a returned one.
MatchRanked ==
    matchOut.kind = "ok" =>
      LET l == matchOut.list
      IN  /\ Len(l) = Min(matchOut.count, Len(cases))
          /\ \A i \in DOMAIN l :
               /\ l[i][2] \in DOMAIN cases
               /\ Score(l[i][2]).kind = "ok"
               /\ l[i][1] = Score(l[i][2]).value
          /\ \A i, j \in DOMAIN l :
               i < j => l[i][2] # l[j][2] /\ ~RLess(l[i][1], l[j][1])
          /\ \A c \in DOMAIN cases \ Listed(l) :
               \A i \in DOMAIN l : ~RLess(l[i][1], Score(c).value)

\* C1: for every case base of N cases, every query and every count >= 0,
\* match(query, count) returns min(count, N) pairs (score, case): distinct
\* cases of the case base, each with score query.similarity(case), in
\* non-increasing order of score, no case left out scoring higher than a
\* returned one.
C1_MatchReturnsTopK ==
    matchOut.kind # "none" => matchOut.kind = "ok" /\ MatchRanked

\* C2: cases of equal score are returned in the order of the case base.
C2_TiesInCaseBaseOrder ==
    matchOut.kind = "ok" =>
      \A i, j \in DOMAIN matchOut.list :
        (i < j /\ matchOut.list[i][1] = matchOut.list[j][1])
          => matchOut.list[i][2] < matchOut.list[j][2]

(***************************************************************************)
(* Properties of Case.similarity, checked under SpecCase on the call       *)
(* query.similarity(cases[1]).                                             *)
(***************************************************************************)
RECURSIVE RSum(_, _)
RSum(S, f) ==
    IF S = {} THEN RInt(0)
    ELSE LET x == CHOOSE y \in S : TRUE
         IN  RAdd(f[x], RSum(S \ {x}, f))

\* the names of self's matching attributes
MatchingNames(self) == {n \in DOMAIN self : heap[self[n]].matching}

\* the weighted aggregate of self and other over the names S
Aggregate(self, other, S) ==
    IF S = {} THEN RInt(0)
    ELSE RDiv(RSum(S, [n \in S |-> AttrSimilarity(heap[self[n]], heap[other[n]])]),
              RSum(S, [n \in S |-> RInt(Weight(heap[self[n]].name))]))

\* C3: self.similarity(other) is the sum of the attribute similarities over
\* the sum of the weights, both over the matching attributes of self whose
\* name other holds too, and 0 when there is none.
C3_SimilarityIsWeightedAggregate ==
    simOut.kind # "none" =>
      /\ simOut.kind = "ok"
      /\ simOut.value =
           Aggregate(query, cases[1], MatchingNames(query) \cap DOMAIN cases[1])

\* C4: a matching attribute of self that other lacks is skipped: the call
\* raises nothing and the attribute counts in neither sum.
C4_AbsentAttributeSkipped ==
    (simOut.kind # "none" /\ ~(MatchingNames(query) \subseteq DOMAIN cases[1])) =>
      /\ simOut.kind # "KeyError"
      /\ simOut.value =
           Aggregate(query, cases[1], MatchingNames(query) \cap DOMAIN cases[1])

\* Whenever other holds every matching attribute of self, the call returns
\* the weighted aggregate over the matching attributes.
SimilarityWhenAllPresent ==
    (simOut.kind # "none" /\ MatchingNames(query) \subseteq DOMAIN cases[1]) =>
      /\ simOut.kind = "ok"
      /\ simOut.value = Aggregate(query, cases[1], MatchingNames(query))


(***************************************************************************)
(* Properties of Matcher.adapt, checked under Spec on the call             *)
(* adapt(query, result) with result the list the last match returned.      *)
(***************************************************************************)
\* the case of result[0]
Best == cases[matchOut.list[1][2]]

\* C5: whenever adapt returns, the adapted case is at least as similar to
\* the query as the best case; whenever the adaptation of the best case
\* is less similar, adapt raises AdaptationError.
C5_AdaptedNotWorse ==
    /\ adaptOut.kind = "ok" =>
         LET s == CaseSimilarity(heap, query, adaptOut.case)
         IN  s.kind = "ok" /\ ~RLess(s.value, Score(matchOut.list[1][2]).value)
    /\ (adaptOut.kind # "none" /\ matchOut.list # <<>>) =>
         \A order \in NameOrders(DOMAIN Best) :
           LET a == CaseAdapt(Rooted(heap), Best, query, order)
               s == CaseSimilarity(a.heap, query, a.case)
           IN  (a.kind = "ok" /\ s.kind = "ok"
                  /\ RLess(s.value, Score(matchOut.list[1][2]).value))
                 => adaptOut.kind = "AdaptationError"

\* adapt returned a case whose price was adjusted, for a query that sets a
\* price itself
C5_Witness ==
    /\ adaptOut.kind = "ok"
    /\ "Price" \in DOMAIN query
    /\ "Price" \in DOMAIN adaptOut.case
    /\ heap[adaptOut.case["Price"]].value # heap[Best["Price"]].value

\* adapt refused an adaptation that made the match worse
AdaptRefusedWorse == adaptOut.kind = "AdaptationError" /\ adaptOut.why = "worse"

\* the adaptable names the query and the best case both hold, with
\* different values
DifferingAdaptable ==
    {k \in DOMAIN query \cap DOMAIN Best :
        Adaptable(k) /\ heap[query[k]].value # heap[Best[k]].value}

\* C6: adapt raises AdaptationError when no adaptable attribute that the
\* query and the best case both hold differs in value between them, also
\* when the two attribute objects are distinct.
C6_NothingToAdaptRaises ==
    (adaptOut.kind # "none" /\ matchOut.list # <<>> /\ DifferingAdaptable = {})
      => adaptOut.kind = "AdaptationError"

\* When no adaptable attribute of the query is a different object from
\* the best case's, adapt raises AdaptationError.
SameObjectsRaise ==
    (adaptOut.kind # "none" /\ matchOut.list # <<>>
       /\ \A k \in DOMAIN query \cap DOMAIN Best : Adaptable(k) => query[k] = Best[k])
      => adaptOut.kind \in {"AdaptationError", "KeyError"}

\* C7: adapt raises AdaptationError when the result list is empty,
\* whatever the query.
C7_EmptyResultRaises ==
    (adaptOut.kind # "none" /\ matchOut.list = <<>>)
      => adaptOut.kind = "AdaptationError"

\* adapt was called with the empty result of a match over a case base
\* that holds cases
C7_Witness ==
    /\ adaptOut.kind = "AdaptationError"
    /\ adaptOut.why = "empty"
    /\ matchOut.list = <<>>
    /\ Len(cases) > 0


(***************************************************************************)
(* Properties of Case.adapt, checked under SpecCase on the call            *)
(* cases[1].adapt(query).                                                  *)
(***************************************************************************)
RECURSIVE RProd(_, _)
RProd(S, f) ==
    IF S = {} THEN RInt(1)
    ELSE LET n == CHOOSE m \in S : TRUE
         IN  RMul(f[n], RProd(S \ {n}, f))

\* the names of self that are adaptable and present in other
AdaptedNames(self, other) == {n \in DOMAIN self \cap DOMAIN other : Adaptable(n)}

\* the product of other[name].value / self[name].value over the names S
RatioProduct(self, other, S) ==
    RProd(S, [n \in S |-> Rat(heap[other[n]].value, heap[self[n]].value)])

\* C8: when cases[1].adapt(query) returns, its combined ratio is the
\* product of query[name].value / cases[1][name].value over exactly the
\* adaptable names of cases[1] that the query holds, 1 when there is none,
\* in whichever order the attributes were visited.
C8_RatioIsProduct ==
    caseAdaptOut.kind = "ok" =>
      caseAdaptOut.total_adapt =
        RatioProduct(cases[1], query, AdaptedNames(cases[1], query))

\* adapt combined the ratios of two adaptable attributes, neither equal to 1
C8_Witness ==
    /\ caseAdaptOut.kind = "ok"
    /\ AdaptedNames(cases[1], query) = {"Duration", "NumberOfPersons"}
    /\ \A n \in AdaptedNames(cases[1], query) :
         heap[query[n]].value # heap[cases[1][n]].value
    /\ caseAdaptOut.total_adapt # RInt(1)
    /\ caseAdaptOut.total_adapt[1] # 0

\* adapt found no adaptable attribute shared with the query
AdaptNothingShared ==
    /\ caseAdaptOut.kind = "ok"
    /\ DOMAIN cases[1] # {}
    /\ DOMAIN query # {}
    /\ AdaptedNames(cases[1], query) = {}

C10_AdaptLeavesOperandsUnchanged ==
    [][caseAdaptOut'.kind # "none" =>
         /\ cases' = cases
         /\ query' = query
         /\ \A a \in DOMAIN Rooted(heap) : a \in DOMAIN heap' /\ heap'[a] = heap[a]
         /\ \A n \in DOMAIN caseAdaptOut'.case :
              (Adjustable(n) /\ ~(Adaptable(n) /\ n \in DOMAIN query))
                => caseAdaptOut'.case[n] \notin DOMAIN Rooted(heap)]_vars

\* adapt returned a case whose price was rescaled to another value, held
\* in an object of its own, for a query that holds a price too
C10_Witness ==
    /\ caseAdaptOut.kind = "ok"
    /\ "Price" \in DOMAIN caseAdaptOut.case
    /\ "Price" \in DOMAIN query
    /\ caseAdaptOut.case["Price"] # cases[1]["Price"]
    /\ caseAdaptOut.case["Price"] # query["Price"]
    /\ heap[caseAdaptOut.case["Price"]].value # heap[cases[1]["Price"]].value


(***************************************************************************)
(* The case base under Matcher.match and Matcher.adapt, checked under Spec *)
(***************************************************************************)
\* the attribute objects the case base holds
CaseBaseAddrs == UNION {{cases[i][n] : n \in DOMAIN cases[i]} : i \in DOMAIN cases}

\* C11: every call of Matcher.match and of Matcher.adapt, returning or
\* raising, leaves the case base the same sequence of the same cases, each
\* attribute object of it with the value it had, and a call of adapt
\* leaves the result list it was given as it was.
C11_CaseBaseUnchanged ==
    [][/\ cases' = cases
       /\ \A a \in CaseBaseAddrs : a \in DOMAIN heap' /\ heap'[a] = heap[a]
       /\ adaptOut'.kind # "none" => matchOut' = matchOut]_vars

\* adapt returned a case with a rescaled price, built from the best of two
\* stored cases that both hold a price
C11_Witness ==
    /\ adaptOut.kind = "ok"
    /\ Len(cases) = 2
    /\ \A i \in DOMAIN cases : "Price" \in DOMAIN cases[i]
    /\ Len(matchOut.list) = 2
    /\ heap[adaptOut.case["Price"]].value # heap[Best["Price"]].value

\* match and adapt both raised over a case base of two cases
CaseBaseAfterErrors ==
    /\ Len(cases) = 2
    /\ adaptOut.kind = "AdaptationError"
    /\ adaptOut.why = "worse"


(***************************************************************************)
(* Adapting a case to a query identical to it, checked under SpecCase on   *)
(* the call cases[1].adapt(query).                                         *)
(***************************************************************************)
\* the query has the names of cases[1] and, under each, its value
Identical ==
    /\ DOMAIN query = DOMAIN cases[1]
    /\ \A n \in DOMAIN query : heap[query[n]].value = heap[cases[1][n]].value

\* the case adapt returned equals cases[1] attribute by attribute and the
\* combined ratio is 1
AdaptedEqualsSelf ==
    /\ caseAdaptOut.total_adapt = RInt(1)
    /\ DOMAIN caseAdaptOut.case = DOMAIN cases[1]
    /\ \A n \in DOMAIN cases[1] :
         AttrEq(heap[caseAdaptOut.case[n]], heap[cases[1][n]])

\* C12: for every case and a query identical to it, case.adapt(query)
\* yields a case equal to the case attribute by attribute, with combined
\* ratio 1 and every adjustable value unchanged.
C12_IdenticalQueryAdaptsToSelf ==
    (caseAdaptOut.kind # "none" /\ Identical)
      => (caseAdaptOut.kind = "ok" /\ AdaptedEqualsSelf)

\* Whenever the adaptation of a case to an identical query returns, it
\* returns a case equal to the case.
IdenticalAdaptWhenReturns ==
    (caseAdaptOut.kind = "ok" /\ Identical) => AdaptedEqualsSelf

\* a case with a price and two adaptable attributes was adapted to an
\* identical query held in objects of its own
IdenticalAdapted ==
    /\ caseAdaptOut.kind = "ok"
    /\ Identical
    /\ {"Duration", "NumberOfPersons", "Price"} \subseteq DOMAIN cases[1]
    /\ \A n \in DOMAIN query : query[n] # cases[1][n]


(***************************************************************************)
(* The similarity of a case to itself, checked under SpecSelf, where the   *)
(* query is cases[1] and Similarity(1) is the call c.similarity(c).        *)
(***************************************************************************)
\* the exact-match, table-match and linear-match classes
ExactNames == {"JourneyCode"}
LinearNames == {"Duration", "NumberOfPersons"}

\* C13: a case with at least one matching attribute, all of whose matching
\* attributes are exact-match, table-match or linear-match, has similarity
\* 1 to itself.
C13_SelfSimilarityIsOne ==
    (/\ simOut.kind # "none"
     /\ query = cases[1]
     /\ MatchingNames(query) # {}
     /\ MatchingNames(query) \subseteq ExactNames \cup TableNames \cup LinearNames)
      => (simOut.kind = "ok" /\ simOut.value = RInt(1))

\* A case whose matching attributes are exact-match or linear-match of
\* weight 1 has similarity 1 to itself.
ExactLinearSelfSimilarity ==
    (/\ simOut.kind # "none"
     /\ query = cases[1]
     /\ MatchingNames(query) # {}
     /\ MatchingNames(query) \subseteq ExactNames \cup LinearNames)
      => (simOut.kind = "ok" /\ simOut.value = RInt(1))

\* a case of an exact-match and two linear-match attributes was compared
\* with itself
SelfCompared ==
    /\ simOut.kind = "ok"
    /\ query = cases[1]
    /\ DOMAIN query = ExactNames \cup LinearNames


(***************************************************************************)
(* Attributes whose matching flag is false, checked under SpecCase on the  *)
(* call query.similarity(cases[1]).                                        *)
(***************************************************************************)
\* the case c without the name n
Without(c, n) == [m \in DOMAIN c \ {n} |-> c[m]]

\* the names both the query and cases[1] hold with the matching flag false
BothUnmatched ==
    {n \in DOMAIN query \cap DOMAIN cases[1] :
        ~heap[query[n]].matching /\ ~heap[cases[1][n]].matching}

\* the heap with the values v and w under the name n of the query and of
\* cases[1]
Revalued(n, v, w) ==
    [a \in DOMAIN heap |->
        IF a = query[n] THEN [heap[a] EXCEPT !.value = v]
        ELSE IF a = cases[1][n] THEN [heap[a] EXCEPT !.value = w]
        ELSE heap[a]]

\* C14: when the query and cases[1] both hold an attribute whose matching
\* flag is false, query.similarity(cases[1]) is what it is for any other
\* values of that attribute, and what it is for the two cases without it.
C14_UnmatchedAttributeIgnored ==
    simOut.kind # "none" =>
      \A n \in BothUnmatched :
        /\ simOut = CaseSimilarity(heap, Without(query, n), Without(cases[1], n))
        /\ \A v \in Values(n), w \in Values(n) :
             simOut = CaseSimilarity(Revalued(n, v, w), query, cases[1])

\* two cases that differ in a non-matching attribute and agree on a
\* matching one were compared
C14_Witness ==
    /\ simOut.kind = "ok"
    /\ simOut.value # RInt(0)
    /\ BothUnmatched # {}
    /\ \E n \in BothUnmatched : heap[query[n]].value # heap[cases[1][n]].value
    /\ DOMAIN query \ BothUnmatched # {}


(***************************************************************************)
(* Properties of item assignment, checked under SpecBuild.                 *)
(***************************************************************************)
\* the step is an assignment of a raw value
RawAssignment == setOut'.count # setOut.count /\ setOut'.how = "raw"

\* C15: assigning a raw value under a name that is not the name of an
\* attribute class, a name of another object of the module attribute_names
\* included, fails with KeyError and leaves the case as it was.
C15_UnknownNameRaisesKeyError ==
    [][(RawAssignment /\ setOut'.name \notin ClassNames)
         => (setOut'.kind = "KeyError" /\ query' = query /\ heap' = heap)]_vars

\* Assigning a raw value under a name the module attribute_names does not
\* have fails with KeyError; under any name that is no class it leaves the
\* case as it was.
AbsentNameRaisesKeyError ==
    [][(RawAssignment /\ setOut'.name \notin ClassNames)
         => /\ query' = query /\ heap' = heap
            /\ ~HasAttr(setOut'.name) => setOut'.kind = "KeyError"]_vars

\* a raw value was assigned under an unknown name to a case that holds an
\* attribute
UnknownNameAssigned ==
    /\ setOut.kind = "KeyError"
    /\ setOut.name \in UnknownNames
    /\ DOMAIN query # {}


\* the domain of a field: positive integers for the numeric classes, the
\* names of the tree for HolidayType, the months for Season
InDomain(attr) ==
    CASE attr.name = "HolidayType" -> attr.value \in TreeNames(HolidayTree)
      [] attr.name = "Season" -> attr.value \in {Months[i] : i \in DOMAIN Months}
      [] OTHER -> attr.value \in Nat \ {0}

\* the raw value can be parsed into the domain of the field `name'
Parsable(name, raw) ==
    CASE name = "HolidayType" ->
           raw.type = "word" /\ raw.word \in TreeNames(HolidayTree)
      [] name = "Season" ->
           raw.type = "word" /\ raw.word \in {Months[i] : i \in DOMAIN Months}
      [] OTHER -> raw.type = "str" /\ IsIntLiteral(raw.chars)

\* C16: a case built from raw values never holds an attribute whose value
\* is outside the domain of its field, and assigning a raw value that
\* cannot be parsed (a non-integer for a numeric field, a category not in
\* the tree, a non-month) raises and stores nothing.
C16_InvalidRawValueRejected ==
    [][(RawAssignment /\ setOut'.name \in BuildNames)
         => /\ \A k \in DOMAIN query' : InDomain(heap'[query'[k]])
            /\ ~Parsable(setOut'.name, setOut'.raw)
                 => (setOut'.kind # "ok" /\ query' = query /\ heap' = heap)]_vars

\* Assigning a string that is no integer literal to a numeric field, or a
\* string that is no category or month to HolidayType or Season, raises
\* and stores nothing; a HolidayType or Season stored is in its domain.
UnparsableStringRejected ==
    [][(RawAssignment /\ setOut'.name \in BuildNames)
         => /\ \A k \in DOMAIN query' :
                 heap'[query'[k]].name \in {"HolidayType", "Season"}
                   => InDomain(heap'[query'[k]])
            /\ (~Parsable(setOut'.name, setOut'.raw) /\ setOut'.raw.type # "float")
                 => (setOut'.kind # "ok" /\ query' = query /\ heap' = heap)]_vars

\* a malformed number was refused for a case that holds a price
MalformedNumberRefused ==
    /\ setOut.kind = "RuntimeError"
    /\ setOut.name = "Price"
    /\ setOut.raw.type = "str"
    /\ "Price" \in DOMAIN query


\* C17: in every case reached through item assignment, of raw values or
\* of Attribute instances, each entry's key is the name of the attribute
\* stored under it, so the case holds at most one attribute of a name.
C17_KeyIsAttributeName ==
    \A k \in DOMAIN query : heap[query[k]].name = k

\* An assignment of a raw value stores an attribute of the key's name and
\* leaves the other entries as they were.
RawAssignmentKeepsKeys ==
    [][RawAssignment =>
         \A k \in DOMAIN query' :
           \/ heap'[query'[k]].name = k
           \/ k \in DOMAIN query /\ query'[k] = query[k] /\ k # setOut'.name]_vars

\* two raw values were assigned to a case under different names
TwoRawAssigned ==
    /\ setOut.count = 2
    /\ Cardinality(DOMAIN query) = 2
    /\ C17_KeyIsAttributeName


\* C18: whatever the class, a.similarity(b) of two valid values of one
\* class lies between 0 and the weight of a, both included.
C18_SimilarityWithinWeight ==
    attrOut.kind = "ok" =>
      /\ ~RLess(attrOut.value, RInt(0))
      /\ ~RLess(RInt(Weight(heap[attrOut.self].name)), attrOut.value)

\* The classes that do not compare linearly stay between 0 and the weight.
NonLinearWithinWeight ==
    (attrOut.kind = "ok" /\ heap[attrOut.self].name \notin LinearNames \cup {"Price"})
      => C18_SimilarityWithinWeight

\* two numbers of persons more than the scale apart were compared
LinearFarApart ==
    /\ attrOut.kind = "ok"
    /\ heap[attrOut.self].name = "NumberOfPersons"
    /\ Abs(heap[attrOut.self].value - heap[attrOut.other].value) > Scale("NumberOfPersons")

\* the width of the declared range once it covers both compared values
WidenedWidth(n, v, w) ==
    LET lo == IF v < w THEN v ELSE w
        hi == IF v < w THEN w ELSE v
        l == IF lo < Range(n)[1] THEN lo ELSE Range(n)[1]
        h == IF hi > Range(n)[2] THEN hi ELSE Range(n)[2]
    IN h - l

\* weight * (1 - |v - w| / scale)
WeightedLinear(n, v, w, scale) ==
    RMul(RInt(Weight(n)), RSub(RInt(1), Rat(Abs(v - w), scale)))

\* C19: a linear comparison (NumberOfPersons, Duration, and Price when the
\* other value is not below) gives weight * (1 - |self - other| / scale),
\* scale being the fixed constant of the class or the width of its range
\* widened to cover both values.
C19_LinearFormula ==
    LET n == heap[attrOut.self].name
        v == heap[attrOut.self].value
        w == heap[attrOut.other].value
    IN (/\ attrOut.kind = "ok"
        /\ n \in LinearNames \cup {"Price"}
        /\ n = "Price" => w >= v)
         => \/ attrOut.value = WeightedLinear(n, v, w, WidenedWidth(n, v, w))
            \/ n = "Duration" /\ attrOut.value = WeightedLinear(n, v, w, Scale(n))

\* Duration, of weight 1 and scale 18, follows the formula.
DurationLinearFormula ==
    (attrOut.kind = "ok" /\ heap[attrOut.self].name = "Duration") => C19_LinearFormula

\* two different durations were compared
DurationsCompared ==
    /\ attrOut.kind = "ok"
    /\ heap[attrOut.self].name = "Duration"
    /\ heap[attrOut.self].value # heap[attrOut.other].value

RECURSIVE Positions(_)
Positions(t) ==
    {<<>>} \cup UNION {{<<k>> \o id : id \in Positions(t[3][k])} : k \in DOMAIN t[3]}

\* p is the position of q or of an ancestor of q
IsAncestor(p, q) == Len(p) <= Len(q) /\ SubSeq(q, 1, Len(p)) = p

\* the node of a tree of distinct names that is named name
Named(t, name) == CHOOSE id \in Positions(t) : NodeAt(t, id)[1] = name

\* the deepest node that is an ancestor of every node of S
NearestCommonAncestor(t, S) ==
    LET common == {p \in Positions(t) : \A q \in S : IsAncestor(p, q)}
    IN  CHOOSE p \in common : \A r \in common : Len(r) <= Len(p)

\* C21: a.similarity(b) of two holiday types is 1.0 when the values are
\* equal, whatever the weight and the value of the node; otherwise it is
\* the value of the nearest common ancestor, not multiplied by the weight.
C21_TreeMatchSimilarity ==
    LET a == heap[attrOut.self]
        b == heap[attrOut.other]
        nca == NearestCommonAncestor(HolidayTree,
                   {Named(HolidayTree, a.value), Named(HolidayTree, b.value)})
    IN  (attrOut.kind = "ok" /\ a.name = "HolidayType") =>
          IF a.value = b.value
          THEN attrOut.value = Rat(1, 1)
          ELSE attrOut.value = NodeAt(HolidayTree, nca)[2]

\* an inner node, whose value in the tree is not 1.0, was compared with itself
C21_Witness ==
    /\ attrOut.kind = "ok"
    /\ heap[attrOut.self].name = "HolidayType"
    /\ heap[attrOut.self].value = heap[attrOut.other].value
    /\ NodeAt(HolidayTree, Named(HolidayTree, heap[attrOut.self].value))[2] # Rat(1, 1)
    /\ attrOut.value = Rat(1, 1)

\* two leaves under different inner nodes were compared
TreeLeavesApart ==
    /\ attrOut.kind = "ok"
    /\ heap[attrOut.self].name = "HolidayType"
    /\ heap[attrOut.self].value = "Diving"
    /\ heap[attrOut.other].value = "Bathing"
    /\ attrOut.value = Rat(3, 10)


\* the nodes that lie on the path find_path returns for every name
OnEveryPath(t, names) ==
    {p \in Positions(t) :
       \A i \in DOMAIN names :
         \E k \in DOMAIN FindPath(t, names[i]) : FindPath(t, names[i])[k] = p}

\* the deepest of the nodes of S
Deepest(S) == CHOOSE p \in S : \A r \in S : Len(r) <= Len(p)

\* C22: for a non-empty list of names find_common_value returns the value
\* of the deepest node on the path of every name, returns None when a name
\* is not in the tree, and raises nothing.
C22_CommonValueIsDeepestShared ==
    (treeOut.kind # "none" /\ treeOut.names # <<>>) =>
      /\ treeOut.kind = "ok"
      /\ IF \E i \in DOMAIN treeOut.names : treeOut.names[i] \notin TreeNames(tree)
         THEN ~treeOut.found
         ELSE /\ treeOut.found
              /\ treeOut.value = NodeAt(tree, Deepest(OnEveryPath(tree, treeOut.names)))[2]

\* the call of the demonstration: three leaves that share the node "1" only
C22_Witness ==
    /\ tree = DemoTree
    /\ treeOut.kind = "ok"
    /\ treeOut.names = <<"1.1.1", "1.2.1", "1.1.2">>
    /\ treeOut.found
    /\ treeOut.value = Rat(1, 2)

\* two leaves of one parent give the parent's value
LeavesOfOneParent ==
    /\ tree = DemoTree
    /\ treeOut.names = <<"1.1.1", "1.1.2">>
    /\ treeOut.value = Rat(3, 4)

\* a name and one of its ancestors give the ancestor's value
AncestorAndDescendant ==
    /\ tree = DemoTree
    /\ treeOut.names = <<"1.1", "1.1.2">>
    /\ treeOut.value = Rat(3, 4)

\* a name the tree lacks gives None
AbsentNameGivesNone ==
    /\ treeOut.kind = "ok"
    /\ treeOut.names = <<"1.1.1", "nowhere">>
    /\ ~treeOut.found


\* C23: a.similarity(b) of two means of transportation is the entry
\* table[a.value][b.value] when the table holds both values, and raises
\* when it lacks one of them, returning no score.
C23_TableMatchLooksUpOrRaises ==
    LET a == heap[attrOut.self]
        b == heap[attrOut.other]
    IN  (attrOut.kind # "none" /\ a.name = "Transportation") =>
          IF a.value \in TransportValues /\ b.value \in TransportValues
          THEN attrOut.kind = "ok" /\ attrOut.value = MatchTable[a.value][b.value]
          ELSE attrOut.kind = "RuntimeError"

\* a value of the table was compared with one the table lacks
C23_Witness ==
    /\ attrOut.kind = "RuntimeError"
    /\ heap[attrOut.self].name = "Transportation"
    /\ heap[attrOut.self].value \in TransportValues
    /\ heap[attrOut.other].value \notin TransportValues

\* two values of the table were compared
TableEntryReturned ==
    /\ attrOut.kind = "ok"
    /\ heap[attrOut.self].name = "Transportation"
    /\ heap[attrOut.self].value = "Train"
    /\ heap[attrOut.other].value = "Car"
    /\ attrOut.value = Rat(2, 5)


\* C24: adjusted(factor) of a price gives a new attribute of the same class
\* whose value is the value times the factor, whole or not, and leaves the
\* attribute it is called on as it was.
C24_AdjustedIsProduct ==
    [][(attrOut'.kind = "adjusted" /\ attrOut' # attrOut) =>
         /\ attrOut'.other \notin DOMAIN heap
         /\ heap'[attrOut'.self] = heap[attrOut'.self]
         /\ heap'[attrOut'.other].name = heap[attrOut'.self].name
         /\ RInt(heap'[attrOut'.other].value)
              = RMul(RInt(heap[attrOut'.self].value), attrOut'.value)]_vars

\* adjusted(factor) gives a new attribute of the same class holding the whole
\* part of the product, and leaves the attribute it is called on as it was.
AdjustedIsWholePart ==
    [][(attrOut'.kind = "adjusted" /\ attrOut' # attrOut) =>
         /\ attrOut'.other \notin DOMAIN heap
         /\ heap'[attrOut'.self] = heap[attrOut'.self]
         /\ heap'[attrOut'.other].name = heap[attrOut'.self].name
         /\ heap'[attrOut'.other].value
              = RTrunc(RMul(RInt(heap[attrOut'.self].value), attrOut'.value))]_vars

\* a price was adjusted by a factor that gives no whole product
AdjustedByFraction ==
    /\ attrOut.kind = "adjusted"
    /\ heap[attrOut.self].value = 3
    /\ attrOut.value = Rat(3, 2)
    /\ heap[attrOut.other].value = 4


\* the price of case i
PriceOf(i) == heap[cases[i]["Price"]].value

\* the score of the price within a similarity of the query to a case: the
\* other attribute asked for, if any, adds its weight 1 to both sums
PriceScore(sim) ==
    LET rest == RInt(Cardinality(DOMAIN query \ {"Price"}))
    IN  RSub(RMul(sim, RAdd(RInt(Weight("Price")), rest)), rest)

Folded(name) ==
    [i \in DOMAIN name |->
       IF i > 1 /\ name[i - 1] = "C3" /\ name[i] = "98" THEN "B8"
       ELSE LowerByte(name[i])]

\* the names that hold ASCII bytes only
Ascii(name) == \A i \in DOMAIN name : name[i] \notin {"C3", "B8", "98"}

\* C26: a construction asks the geocoder only when the corrected lower-case
\* name is not in the cache; after a construction has succeeded, a
\* construction with a name equal to it up to letter case asks nothing and
\* gives the same resolved name and coordinates.
C26_GeocoderAskedOncePerName ==
    [][placeOut' # placeOut =>
         /\ placeOut'.queried => CacheKey(placeOut'.name) \notin DOMAIN location_cache
         /\ \A p \in places :
              Folded(p.name) = Folded(placeOut'.name) =>
                /\ ~placeOut'.queried
                /\ placeOut'.kind = "ok"
                /\ placeOut'.place_name = p.place_name
                /\ placeOut'.coords = p.coords]_vars

\* The same for names of ASCII letters, and for any two equal names.
AsciiNameAskedOnce ==
    [][placeOut' # placeOut =>
         /\ placeOut'.queried => CacheKey(placeOut'.name) \notin DOMAIN location_cache
         /\ \A p \in places :
              (/\ Folded(p.name) = Folded(placeOut'.name)
               /\ (Ascii(p.name) /\ Ascii(placeOut'.name)) \/ p.name = placeOut'.name) =>
                /\ ~placeOut'.queried
                /\ placeOut'.kind = "ok"
                /\ placeOut'.place_name = p.place_name
                /\ placeOut'.coords = p.coords]_vars

\* a name was constructed a second time in other letter case without a query
CachedUnderOtherCase ==
    /\ placeOut.kind = "ok"
    /\ ~placeOut.queried
    /\ \E p \in places : p.name # placeOut.name /\ Lower(p.name) = Lower(placeOut.name)

\* C29: when the geocoder resolves nothing the construction raises, the
\* cache and the places that exist are left as they were, and neither the
\* cache nor any place holds missing coordinates.
C29_UnresolvedNameRaises ==
    [][placeOut' # placeOut =>
         /\ (placeOut'.queried /\ placeOut'.answer = Unresolved) =>
              /\ placeOut'.kind = "ValueError"
              /\ location_cache' = location_cache
              /\ places' = places
         /\ \A k \in DOMAIN location_cache' : location_cache'[k] \in Answers
         /\ \A q \in places' : q.coords \in {a.coords : a \in Answers}]_vars

\* a name was refused although another name is held by the cache
C29_Witness ==
    /\ placeOut.kind = "ValueError"
    /\ placeOut.queried
    /\ placeOut.answer = Unresolved
    /\ CacheKey(placeOut.name) \notin DOMAIN location_cache
    /\ location_cache # <<>>
    /\ places # {}


\* C30: on the list a match returned, not empty, Matcher.adapt returns the
\* adapted case or raises AdaptationError and ends in no other way,
\* whatever the values of the best case, 0 included, and whatever
\* attributes it lacks.
C30_AdaptRaisesOnlyAdaptationError ==
    (adaptOut.kind # "none" /\ matchOut.kind = "ok" /\ matchOut.list # <<>>)
      => adaptOut.kind \in {"ok", "AdaptationError"}

\* the adaptable attributes the best case shares with the query are not 0
BestDividesQuery ==
    LET best == cases[matchOut.list[1][2]]
    IN  \A n \in DOMAIN best \cap DOMAIN query :
          Adaptable(n) => heap[best[n]].value # 0

\* With no 0 to divide by, adapt returns or raises AdaptationError.
AdaptEndsWhenNoZero ==
    (/\ adaptOut.kind # "none"
     /\ matchOut.kind = "ok"
     /\ matchOut.list # <<>>
     /\ BestDividesQuery)
      => adaptOut.kind \in {"ok", "AdaptationError"}

\* adapt was called on a best case whose number of persons is 0
AdaptedFromZero ==
    /\ adaptOut.kind # "none"
    /\ matchOut.kind = "ok"
    /\ matchOut.list # <<>>
    /\ ~BestDividesQuery


\* C27: with auto_run on, after a command that changes the query (set,
\* unset, reset) a stored result, if there is one, records a query equal
\* to the current query.
C27_AutoRunKeepsResultCurrent ==
    (/\ config.auto_run
     /\ cmdOut.cmd \in {"set", "unset", "reset"}
     /\ self_result.kind = "stored")
      => CaseEq(heap, self_result.query, query)

\* A command whose run stored a result leaves the result of the current query.
StoredRunIsCurrent ==
    cmdOut.run.kind = "stored"
      => self_result.kind = "stored" /\ CaseEq(heap, self_result.query, query)

\* the query was reset and the result of the former query is still stored
ResetKeptResult ==
    /\ config.auto_run
    /\ cmdOut.cmd = "reset"
    /\ query = EmptyCase
    /\ self_result.kind = "stored"
    /\ self_result.query # EmptyCase

\* the stored list is the list `matched', after one adapted entry when
\* `adapted' holds
StoredListIs(matched, adapted) ==
    LET L == self_result.list
        off == IF adapted THEN 1 ELSE 0
    IN  /\ self_result.kind = "stored"
        /\ Len(L) = Len(matched) + off
        /\ Len(matched) <= config.retrieve
        /\ adapted => L[1].tag = "adapted"
        /\ \A i \in DOMAIN matched :
             /\ L[i + off].tag = "match"
             /\ L[i + off].sim = matched[i][1]
             /\ L[i + off].index = matched[i][2]

\* C28: after a `query run' whose match found a case, the stored list is
\* the list match returned, at most `retrieve' entries in rank order, after
\* one adapted entry exactly when adapt is on and Matcher.adapt succeeded;
\* an AdaptationError leaves the list of the matches alone.
C28_RunStoresMatchesAndAdapted ==
    (cmdOut.cmd = "run" /\ cmdOut.run.matched # <<>>)
      => StoredListIs(cmdOut.run.matched, config.adapt /\ cmdOut.run.adapt = "ok")

\* The same for the runs that return to the console.
ReturnedRunStoresMatches ==
    (cmdOut.cmd = "run" /\ cmdOut.kind = "ok" /\ cmdOut.run.matched # <<>>)
      => StoredListIs(cmdOut.run.matched, config.adapt /\ cmdOut.run.adapt = "ok")

\* a run found a match and left by an error of Matcher.adapt
RunRaisedAfterMatch ==
    /\ cmdOut.cmd = "run"
    /\ cmdOut.run.matched # <<>>
    /\ cmdOut.kind = "ZeroDivisionError"

\* a run stored the adapted case before two matches
RunStoredAdapted ==
    /\ cmdOut.cmd = "run"
    /\ cmdOut.kind = "ok"
    /\ cmdOut.run.adapt = "ok"
    /\ Len(self_result.list) = 3
    /\ self_result.list[1].tag = "adapted"

\* a run absorbed an AdaptationError
RunAbsorbedAdaptationError ==
    /\ cmdOut.cmd = "run"
    /\ cmdOut.kind = "ok"
    /\ cmdOut.run.adapt = "AdaptationError"
    /\ self_result.kind = "stored"

=============================================================================
